---- MODULE Spec2Model ----
(***************************************************************************)
(* Tool-calling orchestration of the course-materials RAG assistant:       *)
(*   backend/search_tools.py  - Tool, CourseSearchTool, CourseOutlineTool, *)
(*                              ToolManager                                *)
(*   backend/ai_generator.py  - AIGenerator                                *)
(*                                                                         *)
(* Python values are modelled as follows.  A str is a TLA+ string, built   *)
(* with \o exactly where the code builds it with an f-string, += or join.  *)
(* A list is a sequence.  A dict or an object is a record; a key or an     *)
(* attribute that may be absent is a field that may be absent, and         *)
(* dict.get / hasattr test DOMAIN.  None is the value None below.  A call  *)
(* that may raise returns a record with a field "raised".                  *)
(***************************************************************************)
EXTENDS Integers, Sequences, FiniteSets, TLC

VARIABLES
    tools,          \* ToolManager.tools: name -> tool, in insertion order
    last_sources,   \* CourseSearchTool.last_sources of every search tool instance
    last,           \* the registry operation performed last, with what it returned
    pc,             \* where the generate_response invocation stands
    max_rounds,     \* generate_response: max_rounds
    tools_arg,      \* generate_response: tools
    tool_manager,   \* generate_response: tool_manager (TRUE: the ToolManager, FALSE: None)
    round_num,      \* _execute_tool_loop: round_num
    messages,       \* generate_response: messages
    response,       \* _execute_tool_loop: response
    block_idx,      \* _execute_all_tools: position of content_block in response.content
    tool_results,   \* _execute_all_tools: tool_results
    calls,          \* the client.messages.create calls of this invocation, in order
    dispatches,     \* the tool_manager.execute_tool calls of this invocation, in order
    result          \* how the invocation ended: the returned str, or the exception

regVars == <<tools, last_sources, last>>
genVars == <<pc, max_rounds, tools_arg, tool_manager, round_num, messages, response,
             block_idx, tool_results, calls, dispatches, result>>
vars == <<tools, last_sources, last, pc, max_rounds, tools_arg, tool_manager, round_num,
          messages, response, block_idx, tool_results, calls, dispatches, result>>

-----------------------------------------------------------------------------
(* Bounds of the model. *)

\* search results per search in the registry-level specification
MaxResults == 2
\* largest max_tool_rounds a caller passes
MaxRounds == 2

-----------------------------------------------------------------------------
(* Python helpers. *)

None == "<None>"

\* An optional list or int (tools: list | None, max_tool_rounds: int | None) is
\* the empty sequence for None and <<v>> for the value v.
Nothing == <<>>
Some(v) == <<v>>

\* truth value of a str | None
Truthy(s) == s # None /\ s # ""

\* sep.join(parts)
RECURSIVE Join(_, _)
Join(sep, parts) ==
    IF parts = <<>> THEN ""
    ELSE IF Len(parts) = 1 THEN parts[1]
    ELSE parts[1] \o sep \o Join(sep, Tail(parts))

\* the sequences over S of length at most n
SeqsUpTo(S, n) == UNION {[1..k -> S] : k \in 0..n}

-----------------------------------------------------------------------------
(* The tool instances that exist, and the external stores they talk to. *)

\* search1 and search2 are CourseSearchTool instances; notes1 is an instance of
\* a subclass that declares another name and inherits everything else.
SearchTools == {"search1", "search2", "notes1"}
OutlineTools == {"outline1"}
\* tools of other classes, whose definition has no name or an empty one
UnnamedTools == {"unnamed1", "emptyname1"}
ToolIds == SearchTools \cup OutlineTools \cup UnnamedTools

\* The rows a search may return: a document with its chunk metadata, in which
\* course_title and lesson_number may each be missing.
Rows ==
    { <<"alpha", [course_title |-> "MCP", lesson_number |-> 1]>>,
      <<"beta",  [course_title |-> "MCP"]>>,
      <<"gamma", [lesson_number |-> 0]>> }

\* VectorStore.get_lesson_link: the link stored for a lesson, None if there is none.
get_lesson_link(course_title, lesson_num) ==
    IF course_title = "MCP" /\ lesson_num = 1 THEN "https://mcp/1" ELSE None

\* SearchResults.is_empty
is_empty(results) == Len(results.documents) = 0

\* What store.search may do on one call: raise, report an error, or return
\* rows documents with their metadata.
SearchResultsOf(rows) ==
    [documents |-> [i \in 1..Len(rows) |-> rows[i][1]],
     metadata  |-> [i \in 1..Len(rows) |-> rows[i][2]],
     error     |-> None]

SearchError == [documents |-> <<>>, metadata |-> <<>>, error |-> "Search error: boom"]

SearchRaises == [raised |-> TRUE, exc |-> "store down"]

SearchAnswers(n) ==
    {SearchRaises, [raised |-> FALSE, results |-> SearchError]}
    \cup {[raised |-> FALSE, results |-> SearchResultsOf(rows)] :
            rows \in SeqsUpTo(Rows, n)}

-----------------------------------------------------------------------------
(* CourseSearchTool *)

SearchToolName == "search_course_content"
OutlineToolName == "get_course_outline"
NotesToolName == "search_course_notes"

\* Tool.get_tool_definition, as far as the registry reads it
get_tool_definition(tool) ==
    IF tool = "notes1" THEN [name |-> NotesToolName]
    ELSE IF tool \in SearchTools THEN [name |-> SearchToolName]
    ELSE IF tool \in OutlineTools THEN [name |-> OutlineToolName]
    ELSE IF tool = "emptyname1" THEN [name |-> ""]
    ELSE [description |-> "a tool"]

\* (variant: the lesson number is left out of the header)
HeaderTitleOnly(meta) ==
    "[" \o (IF "course_title" \in DOMAIN meta THEN meta.course_title ELSE "unknown") \o "]"

\* _format_results: the header of one result
Header(meta) ==
    LET course_title == IF "course_title" \in DOMAIN meta THEN meta.course_title ELSE "unknown"
        h == "[" \o course_title
    IN  (IF "lesson_number" \in DOMAIN meta
            THEN h \o " - Lesson " \o ToString(meta.lesson_number)
            ELSE h) \o "]"

\* _format_results: the Source of one result
SourceOf(meta) ==
    LET course_title == IF "course_title" \in DOMAIN meta THEN meta.course_title ELSE "unknown"
    IN  [text |-> IF "lesson_number" \in DOMAIN meta
                    THEN course_title \o " - Lesson " \o ToString(meta.lesson_number)
                    ELSE course_title,
         link |-> IF "lesson_number" \in DOMAIN meta
                    THEN get_lesson_link(course_title, meta.lesson_number)
                    ELSE None]

\* (variant: the sources of this call are added to the stored ones)
StoreSourcesAppending(old, sources) == old \o sources

\* _format_results: `self.last_sources = sources`, what the attribute becomes
\* given what it was and the sources of this call
StoreSources(old, sources) == sources

\* CourseSearchTool._format_results(results) on a tool whose last_sources is old:
\* zip(strict=True) raises on lists of different length, before anything is stored.
_format_results(old, results) ==
    IF Len(results.documents) # Len(results.metadata)
    THEN [raised |-> TRUE, exc |-> "zip() arguments have different lengths",
          last_sources |-> old]
    ELSE LET n == Len(results.documents)
             formatted == [i \in 1..n |->
                             Header(results.metadata[i]) \o "\n" \o results.documents[i]]
             sources == [i \in 1..n |-> SourceOf(results.metadata[i])]
         IN  [raised |-> FALSE, ret |-> Join("\n\n", formatted),
              last_sources |-> StoreSources(old, sources)]

\* the "No relevant content found" message of CourseSearchTool.execute
NoContentMessage(kwargs) ==
    LET f1 == IF "course_name" \in DOMAIN kwargs /\ Truthy(kwargs.course_name)
                THEN " in course '" \o kwargs.course_name \o "'" ELSE ""
        f2 == IF "lesson_number" \in DOMAIN kwargs /\ kwargs.lesson_number # 0
                THEN f1 \o " in lesson " \o ToString(kwargs.lesson_number) ELSE f1
    IN  "No relevant content found" \o f2 \o "."

\* (variant: the empty result set is tested before the error)
SearchExecuteEmptyFirst(old, kwargs, answer) ==
    IF "query" \notin DOMAIN kwargs
       \/ ~(DOMAIN kwargs \subseteq {"query", "course_name", "lesson_number"})
    THEN [raised |-> TRUE, exc |-> "execute() got bad arguments", last_sources |-> old]
    ELSE IF answer.raised
    THEN [raised |-> TRUE, exc |-> answer.exc, last_sources |-> old]
    ELSE IF is_empty(answer.results)
    THEN [raised |-> FALSE, ret |-> NoContentMessage(kwargs), last_sources |-> old]
    ELSE IF Truthy(answer.results.error)
    THEN [raised |-> FALSE, ret |-> answer.results.error, last_sources |-> old]
    ELSE _format_results(old, answer.results)

\* CourseSearchTool.execute(**kwargs) on a tool whose last_sources is old, the
\* store answering answer.  Binding **kwargs raises TypeError when query is
\* missing or a keyword is unknown.
SearchExecute(old, kwargs, answer) ==
    IF "query" \notin DOMAIN kwargs
       \/ ~(DOMAIN kwargs \subseteq {"query", "course_name", "lesson_number"})
    THEN [raised |-> TRUE, exc |-> "execute() got bad arguments", last_sources |-> old]
    ELSE IF answer.raised
    THEN [raised |-> TRUE, exc |-> answer.exc, last_sources |-> old]
    ELSE IF Truthy(answer.results.error)
    THEN [raised |-> FALSE, ret |-> answer.results.error, last_sources |-> old]
    ELSE IF is_empty(answer.results)
    THEN [raised |-> FALSE, ret |-> NoContentMessage(kwargs), last_sources |-> old]
    ELSE _format_results(old, answer.results)

-----------------------------------------------------------------------------
(* CourseOutlineTool *)

\* json.loads(lessons_json): a stored lesson list is either well formed, and
\* then parses to the list it serialises, or malformed, and then json.loads raises.
WellFormed(lessons) == [ok |-> TRUE, value |-> lessons]
Malformed == [ok |-> FALSE, value |-> <<>>]

json_loads(s) ==
    IF s.ok THEN [raised |-> FALSE, ret |-> s.value]
    ELSE [raised |-> TRUE, exc |-> "Expecting value: line 1 column 1 (char 0)"]

\* What the store may do on one outline call: _resolve_course_name raises or
\* returns a title or None; course_catalog.get raises or returns metadatas.
OutlineAnswer(resolve_raised, course_title, get_raised, metadatas) ==
    [resolve_raised |-> resolve_raised, course_title |-> course_title,
     get_raised |-> get_raised, metadatas |-> metadatas]

LessonsInOrder == << [lesson_number |-> 1, lesson_title |-> "Intro"],
                     [lesson_number |-> 2, lesson_title |-> "Tools"] >>
LessonsOutOfOrder == << [lesson_number |-> 2, lesson_title |-> "Tools"],
                        [lesson_title |-> "Extra"],
                        [lesson_number |-> 1, lesson_title |-> "Intro"] >>

OutlineAnswers ==
    { OutlineAnswer(TRUE, None, FALSE, <<>>),
      OutlineAnswer(FALSE, None, FALSE, <<>>),
      OutlineAnswer(FALSE, None, TRUE, <<>>),
      OutlineAnswer(FALSE, "MCP", TRUE, <<>>),
      OutlineAnswer(FALSE, "MCP", FALSE, <<>>),
      OutlineAnswer(FALSE, "MCP", FALSE, << [title |-> "MCP", lessons_json |-> Malformed] >>),
      OutlineAnswer(FALSE, "MCP", FALSE,
                    << [title |-> "MCP", course_link |-> "https://mcp",
                        lessons_json |-> WellFormed(LessonsInOrder)] >>),
      OutlineAnswer(FALSE, "MCP", FALSE,
                    << [lessons_json |-> WellFormed(LessonsOutOfOrder)] >>),
      OutlineAnswer(FALSE, "MCP", FALSE, << [title |-> "MCP"] >>) }

\* CourseOutlineTool._format_outline: one lesson line
LessonLine(lesson) ==
    "  Lesson "
    \o (IF "lesson_number" \in DOMAIN lesson THEN ToString(lesson.lesson_number) ELSE "?")
    \o ": "
    \o (IF "lesson_title" \in DOMAIN lesson THEN lesson.lesson_title ELSE "Unknown")

\* (variant: the lessons are listed last first)
_format_outline_reversed(title, course_link, lessons) ==
    LET head == IF Truthy(course_link)
                  THEN << "Course: " \o title, "Course Link: " \o course_link >>
                  ELSE << "Course: " \o title >>
        count == << "\nLessons (" \o ToString(Len(lessons)) \o " total):" >>
    IN  Join("\n", head \o count
                     \o [i \in 1..Len(lessons) |-> LessonLine(lessons[Len(lessons) + 1 - i])])

\* CourseOutlineTool._format_outline
_format_outline(title, course_link, lessons) ==
    LET head == IF Truthy(course_link)
                  THEN << "Course: " \o title, "Course Link: " \o course_link >>
                  ELSE << "Course: " \o title >>
        count == << "\nLessons (" \o ToString(Len(lessons)) \o " total):" >>
    IN  Join("\n", head \o count \o [i \in 1..Len(lessons) |-> LessonLine(lessons[i])])

\* (variant: the metadata is fetched before the resolved title is looked at)
OutlineExecuteFetchFirst(kwargs, answer) ==
    IF DOMAIN kwargs # {"course_name"}
    THEN [raised |-> TRUE, exc |-> "execute() got bad arguments"]
    ELSE IF answer.resolve_raised
    THEN [raised |-> TRUE, exc |-> "store down"]
    ELSE IF answer.get_raised
    THEN [raised |-> FALSE, ret |-> "Error retrieving course outline: " \o "catalog down"]
    ELSE IF ~Truthy(answer.course_title)
    THEN [raised |-> FALSE, ret |-> "No course found matching '" \o kwargs.course_name \o "'"]
    ELSE IF answer.metadatas = <<>>
    THEN [raised |-> FALSE,
          ret |-> "Course metadata not found for '" \o answer.course_title \o "'"]
    ELSE LET metadata == answer.metadatas[1]
             title == IF "title" \in DOMAIN metadata THEN metadata.title ELSE "Unknown"
             course_link == IF "course_link" \in DOMAIN metadata
                              THEN metadata.course_link ELSE None
             lessons_json == IF "lessons_json" \in DOMAIN metadata
                               THEN metadata.lessons_json ELSE WellFormed(<<>>)
             lessons == json_loads(lessons_json)
         IN  IF lessons.raised
             THEN [raised |-> FALSE,
                   ret |-> "Error retrieving course outline: " \o lessons.exc]
             ELSE [raised |-> FALSE, ret |-> _format_outline(title, course_link, lessons.ret)]

\* (variant: the lesson list is parsed outside the try block)
OutlineExecuteParseOutside(kwargs, answer) ==
    IF DOMAIN kwargs # {"course_name"}
    THEN [raised |-> TRUE, exc |-> "execute() got bad arguments"]
    ELSE IF answer.resolve_raised
    THEN [raised |-> TRUE, exc |-> "store down"]
    ELSE IF ~Truthy(answer.course_title)
    THEN [raised |-> FALSE, ret |-> "No course found matching '" \o kwargs.course_name \o "'"]
    ELSE IF answer.get_raised
    THEN [raised |-> FALSE, ret |-> "Error retrieving course outline: " \o "catalog down"]
    ELSE IF answer.metadatas = <<>>
    THEN [raised |-> FALSE,
          ret |-> "Course metadata not found for '" \o answer.course_title \o "'"]
    ELSE LET metadata == answer.metadatas[1]
             title == IF "title" \in DOMAIN metadata THEN metadata.title ELSE "Unknown"
             course_link == IF "course_link" \in DOMAIN metadata
                              THEN metadata.course_link ELSE None
             lessons_json == IF "lessons_json" \in DOMAIN metadata
                               THEN metadata.lessons_json ELSE WellFormed(<<>>)
             lessons == json_loads(lessons_json)
         IN  IF lessons.raised
             THEN [raised |-> TRUE, exc |-> lessons.exc]
             ELSE [raised |-> FALSE, ret |-> _format_outline(title, course_link, lessons.ret)]

\* CourseOutlineTool.execute(**kwargs), the store answering answer.  The name is
\* resolved outside the try block, the rest runs inside it.
OutlineExecute(kwargs, answer) ==
    IF DOMAIN kwargs # {"course_name"}
    THEN [raised |-> TRUE, exc |-> "execute() got bad arguments"]
    ELSE IF answer.resolve_raised
    THEN [raised |-> TRUE, exc |-> "store down"]
    ELSE IF ~Truthy(answer.course_title)
    THEN [raised |-> FALSE, ret |-> "No course found matching '" \o kwargs.course_name \o "'"]
    ELSE IF answer.get_raised
    THEN [raised |-> FALSE, ret |-> "Error retrieving course outline: " \o "catalog down"]
    ELSE IF answer.metadatas = <<>>
    THEN [raised |-> FALSE,
          ret |-> "Course metadata not found for '" \o answer.course_title \o "'"]
    ELSE LET metadata == answer.metadatas[1]
             title == IF "title" \in DOMAIN metadata THEN metadata.title ELSE "Unknown"
             course_link == IF "course_link" \in DOMAIN metadata
                              THEN metadata.course_link ELSE None
             lessons_json == IF "lessons_json" \in DOMAIN metadata
                               THEN metadata.lessons_json ELSE WellFormed(<<>>)
             lessons == json_loads(lessons_json)
         IN  IF lessons.raised
             THEN [raised |-> FALSE,
                   ret |-> "Error retrieving course outline: " \o lessons.exc]
             ELSE [raised |-> FALSE, ret |-> _format_outline(title, course_link, lessons.ret)]

-----------------------------------------------------------------------------
(* ToolManager *)

\* the names registered, and the position of a name in the dict (0: absent)
Names(tls) == {tls[i].name : i \in 1..Len(tls)}

IndexOf(tls, name) ==
    IF name \in Names(tls) THEN CHOOSE i \in 1..Len(tls) : tls[i].name = name ELSE 0

\* the tools the registry holds, and the tool it holds under a name
RegisteredTools(tls) == {tls[i].tool : i \in 1..Len(tls)}
ToolUnder(tls, name) == tls[IndexOf(tls, name)].tool

\* the keywords fit CourseSearchTool.execute / CourseOutlineTool.execute
SearchKwargsFit(kwargs) ==
    /\ "query" \in DOMAIN kwargs
    /\ DOMAIN kwargs \subseteq {"query", "course_name", "lesson_number"}

OutlineKwargsFit(kwargs) == DOMAIN kwargs = {"course_name"}

\* hasattr(tool, "last_sources")
HasLastSources(tool) == tool \in SearchTools

\* (variant: the name is not checked)
register_tool_unchecked(tls, tool) ==
    LET tool_def == get_tool_definition(tool)
        tool_name == IF "name" \in DOMAIN tool_def THEN tool_def.name ELSE None
    IN  [raised |-> FALSE,
         tools |-> IF tool_name \in Names(tls)
                     THEN [tls EXCEPT ![IndexOf(tls, tool_name)].tool = tool]
                     ELSE Append(tls, [name |-> tool_name, tool |-> tool])]

\* (variant: the tools are kept in a list, every registration appends)
register_tool_appending(tls, tool) ==
    LET tool_def == get_tool_definition(tool)
        tool_name == IF "name" \in DOMAIN tool_def THEN tool_def.name ELSE None
    IN  IF ~Truthy(tool_name)
        THEN [raised |-> TRUE, exc |-> "Tool must have a 'name' in its definition",
              tools |-> tls]
        ELSE [raised |-> FALSE, tools |-> Append(tls, [name |-> tool_name, tool |-> tool])]

\* (variant: a new name is put first)
register_tool_prepending(tls, tool) ==
    LET tool_def == get_tool_definition(tool)
        tool_name == IF "name" \in DOMAIN tool_def THEN tool_def.name ELSE None
    IN  IF ~Truthy(tool_name)
        THEN [raised |-> TRUE, exc |-> "Tool must have a 'name' in its definition",
              tools |-> tls]
        ELSE [raised |-> FALSE,
              tools |-> IF tool_name \in Names(tls)
                          THEN [tls EXCEPT ![IndexOf(tls, tool_name)].tool = tool]
                          ELSE <<[name |-> tool_name, tool |-> tool]>> \o tls]

\* (variant: a name that is taken keeps its tool)
register_tool_keep_first(tls, tool) ==
    LET tool_def == get_tool_definition(tool)
        tool_name == IF "name" \in DOMAIN tool_def THEN tool_def.name ELSE None
    IN  IF ~Truthy(tool_name)
        THEN [raised |-> TRUE, exc |-> "Tool must have a 'name' in its definition",
              tools |-> tls]
        ELSE [raised |-> FALSE,
              tools |-> IF tool_name \in Names(tls)
                          THEN tls
                          ELSE Append(tls, [name |-> tool_name, tool |-> tool])]

\* ToolManager.register_tool: self.tools[tool_name] = tool.  A key that exists
\* keeps its position in the dict.
register_tool(tls, tool) ==
    LET tool_def == get_tool_definition(tool)
        tool_name == IF "name" \in DOMAIN tool_def THEN tool_def.name ELSE None
    IN  IF ~Truthy(tool_name)
        THEN [raised |-> TRUE, exc |-> "Tool must have a 'name' in its definition",
              tools |-> tls]
        ELSE [raised |-> FALSE,
              tools |-> IF tool_name \in Names(tls)
                          THEN [tls EXCEPT ![IndexOf(tls, tool_name)].tool = tool]
                          ELSE Append(tls, [name |-> tool_name, tool |-> tool])]

\* ToolManager.get_tool_definitions
get_tool_definitions(tls) == [i \in 1..Len(tls) |-> get_tool_definition(tls[i].tool)]

\* the answers the stores may give to a call of the tool registered under name
AnswersFor(tls, name, searchAnswers, outlineAnswers) ==
    IF name \notin Names(tls) THEN {None}
    ELSE IF tls[IndexOf(tls, name)].tool \in SearchTools THEN searchAnswers
    ELSE outlineAnswers

\* the parameters of execute_tool(self, tool_name, **kwargs) that are bound
\* positionally by every call
BoundPositionally == {"self", "tool_name"}

\* (variant: what the tool raises is caught and returned as text)
execute_tool_catching(tls, srcs, tool_name, kwargs, answer) ==
    IF DOMAIN kwargs \cap BoundPositionally # {}
    THEN [raised |-> TRUE,
          exc |-> "execute_tool() got multiple values for argument '"
                  \o (IF "self" \in DOMAIN kwargs THEN "self" ELSE "tool_name") \o "'",
          last_sources |-> srcs]
    ELSE IF tool_name \notin Names(tls)
    THEN [raised |-> FALSE, ret |-> "Tool '" \o tool_name \o "' not found",
          last_sources |-> srcs]
    ELSE LET tool == tls[IndexOf(tls, tool_name)].tool
         IN  IF tool \in SearchTools
             THEN LET r == SearchExecute(srcs[tool], kwargs, answer)
                  IN  IF r.raised
                      THEN [raised |-> FALSE, ret |-> "Error: " \o r.exc,
                            last_sources |-> [srcs EXCEPT ![tool] = r.last_sources]]
                      ELSE [raised |-> FALSE, ret |-> r.ret,
                            last_sources |-> [srcs EXCEPT ![tool] = r.last_sources]]
             ELSE LET r == OutlineExecute(kwargs, answer)
                  IN  IF r.raised
                      THEN [raised |-> FALSE, ret |-> "Error: " \o r.exc,
                            last_sources |-> srcs]
                      ELSE [raised |-> FALSE, ret |-> r.ret, last_sources |-> srcs]

\* (variant: a tool that tracks no sources clears those of the others)
execute_tool_resetting(tls, srcs, tool_name, kwargs, answer) ==
    IF DOMAIN kwargs \cap BoundPositionally # {}
    THEN [raised |-> TRUE,
          exc |-> "execute_tool() got multiple values for argument '"
                  \o (IF "self" \in DOMAIN kwargs THEN "self" ELSE "tool_name") \o "'",
          last_sources |-> srcs]
    ELSE IF tool_name \notin Names(tls)
    THEN [raised |-> FALSE, ret |-> "Tool '" \o tool_name \o "' not found",
          last_sources |-> srcs]
    ELSE LET tool == tls[IndexOf(tls, tool_name)].tool
         IN  IF tool \in SearchTools
             THEN LET r == SearchExecute(srcs[tool], kwargs, answer)
                  IN  IF r.raised
                      THEN [raised |-> TRUE, exc |-> r.exc,
                            last_sources |-> [srcs EXCEPT ![tool] = r.last_sources]]
                      ELSE [raised |-> FALSE, ret |-> r.ret,
                            last_sources |-> [srcs EXCEPT ![tool] = r.last_sources]]
             ELSE LET r == OutlineExecute(kwargs, answer)
                  IN  IF r.raised
                      THEN [raised |-> TRUE, exc |-> r.exc,
                            last_sources |-> [t \in DOMAIN srcs |-> <<>>]]
                      ELSE [raised |-> FALSE, ret |-> r.ret,
                            last_sources |-> [t \in DOMAIN srcs |-> <<>>]]

\* ToolManager.execute_tool(tool_name, **kwargs): what it returns or raises, and
\* the last_sources of every search tool afterwards.  A keyword named like a
\* parameter that is already bound makes the call itself raise TypeError,
\* before the body runs.
execute_tool(tls, srcs, tool_name, kwargs, answer) ==
    IF DOMAIN kwargs \cap BoundPositionally # {}
    THEN [raised |-> TRUE,
          exc |-> "execute_tool() got multiple values for argument '"
                  \o (IF "self" \in DOMAIN kwargs THEN "self" ELSE "tool_name") \o "'",
          last_sources |-> srcs]
    ELSE IF tool_name \notin Names(tls)
    THEN [raised |-> FALSE, ret |-> "Tool '" \o tool_name \o "' not found",
          last_sources |-> srcs]
    ELSE LET tool == tls[IndexOf(tls, tool_name)].tool
         IN  IF tool \in SearchTools
             THEN LET r == SearchExecute(srcs[tool], kwargs, answer)
                  IN  IF r.raised
                      THEN [raised |-> TRUE, exc |-> r.exc,
                            last_sources |-> [srcs EXCEPT ![tool] = r.last_sources]]
                      ELSE [raised |-> FALSE, ret |-> r.ret,
                            last_sources |-> [srcs EXCEPT ![tool] = r.last_sources]]
             ELSE LET r == OutlineExecute(kwargs, answer)
                  IN  IF r.raised
                      THEN [raised |-> TRUE, exc |-> r.exc, last_sources |-> srcs]
                      ELSE [raised |-> FALSE, ret |-> r.ret, last_sources |-> srcs]

\* (variant: the tools are scanned from the end)
RECURSIVE get_last_sources_from_end(_, _)
get_last_sources_from_end(tls, srcs) ==
    IF tls = <<>> THEN <<>>
    ELSE IF HasLastSources(tls[Len(tls)].tool) /\ srcs[tls[Len(tls)].tool] # <<>>
    THEN srcs[tls[Len(tls)].tool]
    ELSE get_last_sources_from_end(SubSeq(tls, 1, Len(tls) - 1), srcs)

\* ToolManager.get_last_sources
RECURSIVE get_last_sources(_, _)
get_last_sources(tls, srcs) ==
    IF tls = <<>> THEN <<>>
    ELSE IF HasLastSources(tls[1].tool) /\ srcs[tls[1].tool] # <<>>
    THEN srcs[tls[1].tool]
    ELSE get_last_sources(Tail(tls), srcs)

\* (variant: the loop stops at the first tool that tracks sources)
reset_sources_first_only(tls, srcs) ==
    [t \in DOMAIN srcs |->
        IF \E i \in 1..Len(tls) :
              /\ tls[i].tool = t
              /\ HasLastSources(t)
              /\ \A j \in 1..(i - 1) : ~HasLastSources(tls[j].tool)
        THEN <<>> ELSE srcs[t]]

\* ToolManager.reset_sources
reset_sources(tls, srcs) ==
    [t \in DOMAIN srcs |->
        IF \E i \in 1..Len(tls) : tls[i].tool = t /\ HasLastSources(t)
        THEN <<>> ELSE srcs[t]]

-----------------------------------------------------------------------------
(* The registry driven directly by a caller: SpecReg. *)

\* keyword arguments a caller passes to execute_tool
Kwargs ==
    { [query |-> "q"],
      [query |-> "q", course_name |-> "MCP", lesson_number |-> 2],
      [course_name |-> "MCP"],
      [query |-> "q", tool_name |-> "search_course_content"],
      [query |-> "q", course_name |-> "MCP"],
      [query |-> "q", lesson_number |-> 0] }

\* the tools a caller registers
WiredTools == {"search1", "outline1"}

ToolNames == {SearchToolName, OutlineToolName, "nonexistent_tool"}

\* no response received yet, no result yet
NoResponse == [content |-> <<>>, stop_reason |-> None]
NoResult == [kind |-> "none"]

NoInvocation ==
    /\ pc = "idle"
    /\ max_rounds = 0
    /\ tools_arg = Nothing
    /\ tool_manager = FALSE
    /\ round_num = 0
    /\ messages = <<>>
    /\ response = NoResponse
    /\ block_idx = 0
    /\ tool_results = <<>>
    /\ calls = <<>>
    /\ dispatches = <<>>
    /\ result = NoResult

\* ToolManager() and the tools constructed, none registered
InitReg ==
    /\ tools = <<>>
    /\ last_sources = [t \in SearchTools |-> <<>>]
    /\ last = [op |-> "init"]
    /\ NoInvocation

RegisterTool(tool) ==
    /\ \E r \in {register_tool(tools, tool)} :
           /\ tools' = r.tools
           /\ last' = [op |-> "register_tool", tool |-> tool, raised |-> r.raised]
    /\ UNCHANGED last_sources
    /\ UNCHANGED genVars

ExecuteTool(tool_name, kwargs, answer) ==
    /\ \E r \in {execute_tool(tools, last_sources, tool_name, kwargs, answer)} :
           /\ last_sources' = r.last_sources
           /\ last' = [op |-> "execute_tool", tool_name |-> tool_name, kwargs |-> kwargs,
                       tool |-> IF tool_name \in Names(tools)
                                  THEN tools[IndexOf(tools, tool_name)].tool ELSE None,
                       answer |-> answer, raised |-> r.raised,
                       ret |-> IF r.raised THEN r.exc ELSE r.ret]
    /\ UNCHANGED tools
    /\ UNCHANGED genVars

GetLastSources ==
    /\ last' = [op |-> "get_last_sources", ret |-> get_last_sources(tools, last_sources)]
    /\ UNCHANGED <<tools, last_sources>>
    /\ UNCHANGED genVars

ResetSources ==
    /\ last_sources' = reset_sources(tools, last_sources)
    /\ last' = [op |-> "reset_sources"]
    /\ UNCHANGED tools
    /\ UNCHANGED genVars

GetToolDefinitions ==
    /\ last' = [op |-> "get_tool_definitions", ret |-> get_tool_definitions(tools)]
    /\ UNCHANGED <<tools, last_sources>>
    /\ UNCHANGED genVars

NextReg ==
    \/ \E tool \in WiredTools : RegisterTool(tool)
    \/ \E tool_name \in ToolNames, kwargs \in Kwargs :
         \E answer \in AnswersFor(tools, tool_name, SearchAnswers(MaxResults), OutlineAnswers) :
           ExecuteTool(tool_name, kwargs, answer)
    \/ GetLastSources
    \/ ResetSources

SpecReg == InitReg /\ [][NextReg]_vars

\* What the stores may answer to a tool dispatched by generate_response.
GenSearchAnswers ==
    {SearchRaises, [raised |-> FALSE, results |-> SearchError]}
    \cup {[raised |-> FALSE, results |-> SearchResultsOf(rows)] :
            rows \in { <<>>,
                       << <<"alpha", [course_title |-> "MCP", lesson_number |-> 1]>> >>,
                       << <<"beta", [course_title |-> "MCP"]>>,
                          <<"gamma", [lesson_number |-> 0]>> >> }}

GenOutlineAnswers ==
    { OutlineAnswer(TRUE, None, FALSE, <<>>),
      OutlineAnswer(FALSE, None, FALSE, <<>>),
      OutlineAnswer(FALSE, "MCP", FALSE, << [title |-> "MCP", lessons_json |-> Malformed] >>),
      OutlineAnswer(FALSE, "MCP", FALSE,
                    << [title |-> "MCP", course_link |-> "https://mcp",
                        lessons_json |-> WellFormed(LessonsInOrder)] >>) }

-----------------------------------------------------------------------------
(* The registry with every tool instance registrable, two of them under the  *)
(* same name: SpecRegAll.                                                    *)

NextRegAll ==
    \/ \E tool \in ToolIds : RegisterTool(tool)
    \/ \E tool_name \in ToolNames \cup {NotesToolName}, kwargs \in {[query |-> "q"], [course_name |-> "MCP"]} :
         \E answer \in AnswersFor(tools, tool_name, GenSearchAnswers, GenOutlineAnswers) :
           ExecuteTool(tool_name, kwargs, answer)
    \/ GetLastSources
    \/ ResetSources
    \/ GetToolDefinitions

SpecRegAll == InitReg /\ [][NextRegAll]_vars

-----------------------------------------------------------------------------
(* AIGenerator *)

\* AIGenerator.MAX_TOOL_ROUNDS
MAX_TOOL_ROUNDS == 2

TextBlock(text) == [type |-> "text", text |-> text]
ToolUseBlock(id, name, input) == [type |-> "tool_use", id |-> id, name |-> name, input |-> input]

\* What client.messages.create may answer: the content of a response ...
Contents ==
    { <<>>,
      << TextBlock("Answer") >>,
      << TextBlock("Answer"), TextBlock("Details") >>,
      << ToolUseBlock("toolu_1", SearchToolName, [query |-> "q"]) >>,
      << TextBlock("Checking"),
         ToolUseBlock("toolu_1", OutlineToolName, [course_name |-> "MCP"]),
         ToolUseBlock("toolu_2", SearchToolName,
                      [query |-> "q", course_name |-> "MCP", lesson_number |-> 2]) >>,
      << ToolUseBlock("toolu_1", "nonexistent_tool", [query |-> "q"]) >>,
      << ToolUseBlock("toolu_1", "nonexistent_tool",
                      [query |-> "q", tool_name |-> "search_course_content"]) >> }

\* ... its stop reason ...
StopReasons == {"tool_use", "end_turn"}

\* ... or an exception of the client.
ClientErrors == {"APIConnectionError"}

Replies ==
    {[raised |-> TRUE, exc |-> e] : e \in ClientErrors}
    \cup {[raised |-> FALSE, content |-> c, stop_reason |-> sr] :
            c \in Contents, sr \in StopReasons}

\* (variant: the registry is not looked at)
ToolsAvailableIgnoringManager(tls, tm) == tls # Nothing /\ tls[1] # <<>>

\* generate_response: `if tools and tool_manager`
ToolsAvailable(tls, tm) == tls # Nothing /\ tls[1] # <<>> /\ tm

\* (variant: at least one round is run)
RoundRangeAtLeastOne(n) == 1..(IF n < 1 THEN 1 ELSE n)

\* (variant: one round too many)
RoundRangeOneMore(n) == 1..(n + 1)

\* _execute_tool_loop: range(1, max_rounds + 1)
RoundRange(n) == 1..n

\* (variant: the answer is final when it holds no tool_use block)
IsFinalAnswerByBlocks(resp) ==
    \A i \in 1..Len(resp.content) : resp.content[i].type # "tool_use"

\* (variant: the test is inverted)
IsFinalAnswerInverted(resp) == resp.stop_reason = "tool_use"

\* _execute_tool_loop: TERMINATION CHECK #1
IsFinalAnswer(resp) == resp.stop_reason # "tool_use"

\* (variant: the error of a failed tool is not looked at)
HasErrorNever(results_dict) == FALSE

\* _execute_tool_loop: TERMINATION CHECK #2, `if tool_results.get("error")`
HasError(results_dict) == Truthy(results_dict.error)

\* _execute_tool_loop: TERMINATION CHECK #3
MaxRoundsReached(rnd, n) == rnd >= n

\* (variant: only the first message is passed on)
_make_api_call_seed_only(msgs, tls) ==
    IF tls # Nothing /\ tls[1] # <<>>
    THEN [messages |-> << msgs[1] >>, tools |-> tls[1], tool_choice |-> "auto"]
    ELSE [messages |-> << msgs[1] >>]

\* (variant: tools and tool_choice are always passed)
_make_api_call_always_tools(msgs, tls) ==
    [messages |-> msgs, tools |-> tls, tool_choice |-> "auto"]

\* _make_api_call: the parameters of client.messages.create.  tools and
\* tool_choice are passed only for a non-empty tools list.
_make_api_call(msgs, tls) ==
    IF tls # Nothing /\ tls[1] # <<>>
    THEN [messages |-> msgs, tools |-> tls[1], tool_choice |-> "auto"]
    ELSE [messages |-> msgs]

\* _extract_text_response: the texts of the blocks that have a text attribute
RECURSIVE TextParts(_)
TextParts(content) ==
    IF content = <<>> THEN <<>>
    ELSE IF "text" \in DOMAIN content[1]
    THEN <<content[1].text>> \o TextParts(Tail(content))
    ELSE TextParts(Tail(content))

\* (variant: only the first text block is returned)
_extract_text_response_first(resp) ==
    IF resp.content = <<>>
    THEN "I apologize, but I encountered an issue processing your request."
    ELSE IF TextParts(resp.content) # <<>> THEN TextParts(resp.content)[1]
    ELSE "No response generated."

_extract_text_response(resp) ==
    IF resp.content = <<>>
    THEN "I apologize, but I encountered an issue processing your request."
    ELSE IF TextParts(resp.content) # <<>> THEN Join(" ", TextParts(resp.content))
    ELSE "No response generated."

\* (variant: the error is returned bare)
_format_tool_error_bare(error) == error

\* _format_tool_error
_format_tool_error(error) ==
    "I encountered an error while searching the course materials: " \o error

\* (variant: no except clause)
CatchesNothing(exc) == FALSE

\* _execute_all_tools: `except Exception` catches what a tool raises
Catches(exc) == TRUE

\* _execute_all_tools: the error message of a tool that raised
ToolErrorMsg(name, exc) == "Tool " \o name \o " failed: " \o exc

\* _execute_all_tools: the position of the first tool_use block at or after i,
\* Len(content) + 1 if there is none
RECURSIVE NextToolUse(_, _)
NextToolUse(content, i) ==
    IF i > Len(content) THEN i
    ELSE IF content[i].type = "tool_use" THEN i
    ELSE NextToolUse(content, i + 1)

Returned(text) == [kind |-> "return", value |-> text]
Raised(exc) == [kind |-> "raise", value |-> exc]

-----------------------------------------------------------------------------
(* One caller using a wired registry: Spec. *)

\* the registry after the application has registered its two tools
Wired == register_tool(register_tool(<<>>, "search1").tools, "outline1").tools

Init ==
    /\ tools = Wired
    /\ last_sources = [t \in SearchTools |-> <<>>]
    /\ last = [op |-> "init"]
    /\ NoInvocation

\* max_tool_rounds as the caller passes it
RoundsArgs == {Nothing} \cup {Some(n) : n \in -1..MaxRounds}

\* (variant: the citations of the previous query are cleared on entry)
GenerateResponseClearing(query, tls, tm, max_tool_rounds) ==
    /\ pc = "idle"
    /\ max_rounds' = IF max_tool_rounds # Nothing THEN max_tool_rounds[1] ELSE MAX_TOOL_ROUNDS
    /\ tools_arg' = tls
    /\ tool_manager' = tm
    /\ messages' = << [role |-> "user", content |-> query] >>
    /\ calls' = <<>>
    /\ dispatches' = <<>>
    /\ result' = NoResult
    /\ response' = NoResponse
    /\ block_idx' = 0
    /\ tool_results' = <<>>
    /\ IF ToolsAvailable(tls, tm)
       THEN IF 1 \in RoundRange(max_rounds')
            THEN pc' = "round" /\ round_num' = 1
            ELSE pc' = "final" /\ round_num' = 0
       ELSE pc' = "direct" /\ round_num' = 0
    /\ last' = [op |-> "generate_response"]
    /\ last_sources' = reset_sources(tools, last_sources)
    /\ UNCHANGED tools

\* generate_response up to its first call of the client
GenerateResponse(query, tls, tm, max_tool_rounds) ==
    /\ pc = "idle"
    /\ max_rounds' = IF max_tool_rounds # Nothing THEN max_tool_rounds[1] ELSE MAX_TOOL_ROUNDS
    /\ tools_arg' = tls
    /\ tool_manager' = tm
    /\ messages' = << [role |-> "user", content |-> query] >>
    /\ calls' = <<>>
    /\ dispatches' = <<>>
    /\ result' = NoResult
    /\ response' = NoResponse
    /\ block_idx' = 0
    /\ tool_results' = <<>>
    /\ IF ToolsAvailable(tls, tm)
       THEN IF 1 \in RoundRange(max_rounds')
            THEN pc' = "round" /\ round_num' = 1
            ELSE pc' = "final" /\ round_num' = 0
       ELSE pc' = "direct" /\ round_num' = 0
    /\ last' = [op |-> "generate_response"]
    /\ UNCHANGED <<tools, last_sources>>

\* _execute_tool_loop: the call of the client in round round_num, up to the
\* first tool dispatch
RoundCall(reply) ==
    /\ pc = "round"
    /\ calls' = Append(calls, _make_api_call(messages, tools_arg))
    /\ IF reply.raised
       THEN /\ result' = Raised(reply.exc)
            /\ pc' = "done"
            /\ UNCHANGED <<messages, response, block_idx, tool_results>>
       ELSE IF IsFinalAnswer(reply)
       THEN /\ result' = Returned(_extract_text_response(reply))
            /\ pc' = "done"
            /\ response' = reply
            /\ UNCHANGED <<messages, block_idx, tool_results>>
       ELSE /\ messages' = Append(messages, [role |-> "assistant", content |-> reply.content])
            /\ response' = reply
            /\ block_idx' = 1
            /\ tool_results' = <<>>
            /\ pc' = "tools"
            /\ UNCHANGED result
    /\ UNCHANGED <<max_rounds, tools_arg, tool_manager, round_num, dispatches>>
    /\ UNCHANGED regVars

\* _execute_all_tools: the next tool_use block of the response
ExecuteBlock(answer) ==
    /\ pc = "tools"
    /\ LET i == NextToolUse(response.content, block_idx)
       IN  /\ i <= Len(response.content)
           /\ LET content_block == response.content[i]
              IN  \E r \in {execute_tool(tools, last_sources, content_block.name,
                                         content_block.input, answer)} :
                  /\ last_sources' = r.last_sources
                  /\ dispatches' = Append(dispatches,
                        [round |-> round_num, id |-> content_block.id,
                         name |-> content_block.name, input |-> content_block.input,
                         answer |-> answer, raised |-> r.raised,
                         ret |-> IF r.raised THEN r.exc ELSE r.ret])
                  /\ IF r.raised /\ ~Catches(r.exc)
                     THEN /\ result' = Raised(r.exc)
                          /\ pc' = "done"
                          /\ UNCHANGED <<tool_results, block_idx>>
                     ELSE IF r.raised
                     THEN LET results_dict ==
                                [results |-> <<>>,
                                 error |-> ToolErrorMsg(content_block.name, r.exc)]
                          IN  IF HasError(results_dict)
                              THEN /\ result' = Returned(_format_tool_error(results_dict.error))
                                   /\ pc' = "done"
                                   /\ UNCHANGED <<tool_results, block_idx>>
                              ELSE /\ tool_results' = results_dict.results
                                   /\ block_idx' = Len(response.content) + 1
                                   /\ UNCHANGED <<result, pc>>
                     ELSE /\ tool_results' = Append(tool_results,
                                [type |-> "tool_result", tool_use_id |-> content_block.id,
                                 content |-> r.ret])
                          /\ block_idx' = i + 1
                          /\ UNCHANGED <<result, pc>>
    /\ UNCHANGED <<max_rounds, tools_arg, tool_manager, round_num, messages, response, calls>>
    /\ UNCHANGED <<tools, last>>

\* (variant: one user message is appended per tool result)
RoundEndPerResult ==
    /\ pc = "tools"
    /\ NextToolUse(response.content, block_idx) > Len(response.content)
    /\ messages' = messages \o [k \in 1..Len(tool_results) |->
                                  [role |-> "user", content |-> << tool_results[k] >>]]
    /\ IF MaxRoundsReached(round_num, max_rounds) \/ round_num + 1 \notin RoundRange(max_rounds)
       THEN pc' = "final" /\ UNCHANGED round_num
       ELSE pc' = "round" /\ round_num' = round_num + 1
    /\ UNCHANGED <<max_rounds, tools_arg, tool_manager, response, block_idx, tool_results,
                   calls, dispatches, result>>
    /\ UNCHANGED regVars

\* (variant: the tool results are appended under a role of their own)
RoundEndToolRole ==
    /\ pc = "tools"
    /\ NextToolUse(response.content, block_idx) > Len(response.content)
    /\ messages' = Append(messages, [role |-> "tool", content |-> tool_results])
    /\ IF MaxRoundsReached(round_num, max_rounds) \/ round_num + 1 \notin RoundRange(max_rounds)
       THEN pc' = "final" /\ UNCHANGED round_num
       ELSE pc' = "round" /\ round_num' = round_num + 1
    /\ UNCHANGED <<max_rounds, tools_arg, tool_manager, response, block_idx, tool_results,
                   calls, dispatches, result>>
    /\ UNCHANGED regVars

\* _execute_tool_loop: after _execute_all_tools returned without error
RoundEnd ==
    /\ pc = "tools"
    /\ NextToolUse(response.content, block_idx) > Len(response.content)
    /\ messages' = Append(messages, [role |-> "user", content |-> tool_results])
    /\ IF MaxRoundsReached(round_num, max_rounds) \/ round_num + 1 \notin RoundRange(max_rounds)
       THEN pc' = "final" /\ UNCHANGED round_num
       ELSE pc' = "round" /\ round_num' = round_num + 1
    /\ UNCHANGED <<max_rounds, tools_arg, tool_manager, response, block_idx, tool_results,
                   calls, dispatches, result>>
    /\ UNCHANGED regVars

\* (variant: the tools requested by the final answer are run as well)
FinalCallDispatching(reply) ==
    /\ pc = "final"
    /\ calls' = Append(calls, _make_api_call(messages, Nothing))
    /\ IF reply.raised
       THEN /\ result' = Raised(reply.exc)
            /\ pc' = "done"
            /\ UNCHANGED <<response, block_idx, tool_results>>
       ELSE IF IsFinalAnswer(reply)
       THEN /\ result' = Returned(_extract_text_response(reply))
            /\ pc' = "done"
            /\ response' = reply
            /\ UNCHANGED <<block_idx, tool_results>>
       ELSE /\ response' = reply
            /\ block_idx' = 1
            /\ tool_results' = <<>>
            /\ pc' = "tools"
            /\ UNCHANGED result
    /\ UNCHANGED <<max_rounds, tools_arg, tool_manager, round_num, messages, dispatches>>
    /\ UNCHANGED regVars

\* _execute_tool_loop: the final synthesis call without tools
FinalCall(reply) ==
    /\ pc = "final"
    /\ calls' = Append(calls, _make_api_call(messages, Nothing))
    /\ IF reply.raised
       THEN result' = Raised(reply.exc) /\ UNCHANGED response
       ELSE result' = Returned(_extract_text_response(reply)) /\ response' = reply
    /\ pc' = "done"
    /\ UNCHANGED <<max_rounds, tools_arg, tool_manager, round_num, messages, block_idx,
                   tool_results, dispatches>>
    /\ UNCHANGED regVars

\* generate_response: the direct response when no tools are available
DirectCall(reply) ==
    /\ pc = "direct"
    /\ calls' = Append(calls, _make_api_call(messages, Nothing))
    /\ IF reply.raised
       THEN result' = Raised(reply.exc) /\ UNCHANGED response
       ELSE result' = Returned(_extract_text_response(reply)) /\ response' = reply
    /\ pc' = "done"
    /\ UNCHANGED <<max_rounds, tools_arg, tool_manager, round_num, messages, block_idx,
                   tool_results, dispatches>>
    /\ UNCHANGED regVars

\* The caller, once generate_response has ended: it reads the citations,
\* clears them, or goes on to its next query.
CallerGetLastSources ==
    /\ pc = "done"
    /\ last.op # "get_last_sources"
    /\ GetLastSources

CallerResetSources ==
    /\ pc = "done"
    /\ last.op # "reset_sources"
    /\ ResetSources

NextQuery ==
    /\ pc = "done"
    /\ pc' = "idle"
    /\ max_rounds' = 0
    /\ tools_arg' = Nothing
    /\ tool_manager' = FALSE
    /\ round_num' = 0
    /\ messages' = <<>>
    /\ response' = NoResponse
    /\ block_idx' = 0
    /\ tool_results' = <<>>
    /\ calls' = <<>>
    /\ dispatches' = <<>>
    /\ result' = NoResult
    /\ last' = [op |-> "init"]
    /\ UNCHANGED <<tools, last_sources>>

\* the answers the stores may give to the next tool_use block
BlockAnswers ==
    IF pc = "tools" /\ NextToolUse(response.content, block_idx) <= Len(response.content)
    THEN AnswersFor(tools, response.content[NextToolUse(response.content, block_idx)].name,
                    GenSearchAnswers, GenOutlineAnswers)
    ELSE {}

GenStep ==
    \/ \E reply \in Replies : RoundCall(reply)
    \/ \E answer \in BlockAnswers : ExecuteBlock(answer)
    \/ RoundEnd
    \/ \E reply \in Replies : FinalCall(reply)
    \/ \E reply \in Replies : DirectCall(reply)

Next ==
    \/ \E tls \in {Nothing, Some(<<>>), Some(get_tool_definitions(tools))}, tm \in BOOLEAN,
          max_tool_rounds \in RoundsArgs :
         GenerateResponse("What is testing?", tls, tm, max_tool_rounds)
    \/ GenStep
    \/ CallerGetLastSources
    \/ CallerResetSources
    \/ NextQuery

Spec == Init /\ [][Next]_vars

\* generate_response runs to its end: every call it makes returns or raises.
FairSpec == Spec /\ WF_vars(GenStep)

-----------------------------------------------------------------------------
(* One caller whose queries never lead to a search: SpecQuiet.  The answers  *)
(* of the client are plain text or ask for the course outline only, and the  *)
(* registry may hold the citations of an earlier query at the start.         *)

QuietContents ==
    { << TextBlock("Answer") >>,
      << ToolUseBlock("toolu_1", OutlineToolName, [course_name |-> "MCP"]) >>,
      << TextBlock("Checking"),
         ToolUseBlock("toolu_1", OutlineToolName, [course_name |-> "MCP"]) >> }

QuietReplies ==
    {[raised |-> FALSE, content |-> c, stop_reason |-> sr] :
        c \in QuietContents, sr \in StopReasons}

\* the citations an earlier search left in the registry
HeldCitations == << [text |-> "MCP - Lesson 1", link |-> "https://mcp/1"] >>

InitQuiet ==
    /\ tools = Wired
    /\ last_sources \in {[t \in SearchTools |-> <<>>],
                          [t \in SearchTools |-> IF t = "search1" THEN HeldCitations ELSE <<>>]}
    /\ last = [op |-> "init"]
    /\ NoInvocation

QuietStep ==
    \/ \E reply \in QuietReplies : RoundCall(reply)
    \/ \E answer \in BlockAnswers : ExecuteBlock(answer)
    \/ RoundEnd
    \/ \E reply \in QuietReplies : FinalCall(reply)
    \/ \E reply \in QuietReplies : DirectCall(reply)

NextQuiet ==
    \/ \E tls \in {Nothing, Some(get_tool_definitions(tools))}, tm \in BOOLEAN,
          max_tool_rounds \in RoundsArgs :
         GenerateResponse("What is testing?", tls, tm, max_tool_rounds)
    \/ QuietStep
    \/ CallerGetLastSources
    \/ CallerResetSources
    \/ NextQuery

SpecQuiet == InitQuiet /\ [][NextQuiet]_vars

-----------------------------------------------------------------------------
(* One caller whose queries lead to several searches, two of them in one     *)
(* round: SpecBusy.                                                          *)

BusyContents ==
    { << TextBlock("Answer") >>,
      << ToolUseBlock("toolu_1", SearchToolName, [query |-> "q"]),
         ToolUseBlock("toolu_2", SearchToolName, [query |-> "q", course_name |-> "MCP"]) >> }

BusyReplies ==
    {[raised |-> FALSE, content |-> c, stop_reason |-> sr] :
        c \in BusyContents, sr \in StopReasons}

BusyStep ==
    \/ \E reply \in BusyReplies : RoundCall(reply)
    \/ \E answer \in BlockAnswers : ExecuteBlock(answer)
    \/ RoundEnd
    \/ \E reply \in BusyReplies : FinalCall(reply)

NextBusy ==
    \/ \E max_tool_rounds \in {Nothing, Some(1)} :
         GenerateResponse("What is testing?", Some(get_tool_definitions(tools)), TRUE,
                          max_tool_rounds)
    \/ BusyStep
    \/ CallerGetLastSources
    \/ CallerResetSources
    \/ NextQuery

SpecBusy == Init /\ [][NextBusy]_vars

-----------------------------------------------------------------------------
(* The single-round helper _handle_tool_execution called directly, as its    *)
(* test does: SpecHandle.  last holds the call: base_params is the caller's  *)
(* dict as it is now, given the message list it held when it was passed, and *)
(* same tells whether the local variable messages names the caller's list.   *)

\* (variant: the helper works on the caller's list itself)
list_itself(list) == [value |-> list, same |-> TRUE]

\* base_params["messages"].copy(): a new list with the same elements
list_copy(list) == [value |-> list, same |-> FALSE]

\* the message lists a caller passes in base_params
BaseMessages ==
    { << [role |-> "user", content |-> "What is testing?"] >>,
      << [role |-> "user", content |-> "What is testing?"],
         [role |-> "assistant", content |-> << TextBlock("Answer") >>],
         [role |-> "user", content |-> "And mocking?"] >> }

\* what an append to the local list does to the caller's dict
CallerSees(call, msgs) ==
    IF call.same THEN [call EXCEPT !.base_params.messages = msgs] ELSE call

\* _handle_tool_execution up to its first tool dispatch
HandleToolExecution(initial_response, base_messages) ==
    /\ pc = "idle"
    /\ last.op = "init"
    /\ \E local \in {list_copy(base_messages)} :
           /\ messages' = Append(local.value,
                                 [role |-> "assistant", content |-> initial_response.content])
           /\ last' = CallerSees([op |-> "_handle_tool_execution",
                                  base_params |-> [messages |-> base_messages],
                                  given |-> base_messages,
                                  same |-> local.same], messages')
    /\ response' = initial_response
    /\ block_idx' = 1
    /\ tool_results' = <<>>
    /\ calls' = <<>>
    /\ dispatches' = <<>>
    /\ result' = NoResult
    /\ round_num' = 1
    /\ pc' = "handle"
    /\ UNCHANGED <<max_rounds, tools_arg, tool_manager, tools, last_sources>>

\* _handle_tool_execution: the next tool_use block of the initial response;
\* what the tool raises is not caught
HandleBlock(answer) ==
    /\ pc = "handle"
    /\ LET i == NextToolUse(response.content, block_idx)
       IN  /\ i <= Len(response.content)
           /\ LET content_block == response.content[i]
              IN  \E r \in {execute_tool(tools, last_sources, content_block.name,
                                         content_block.input, answer)} :
                  /\ last_sources' = r.last_sources
                  /\ dispatches' = Append(dispatches,
                        [round |-> round_num, id |-> content_block.id,
                         name |-> content_block.name, input |-> content_block.input,
                         answer |-> answer, raised |-> r.raised,
                         ret |-> IF r.raised THEN r.exc ELSE r.ret])
                  /\ IF r.raised
                     THEN /\ result' = Raised(r.exc)
                          /\ pc' = "done"
                          /\ UNCHANGED <<tool_results, block_idx>>
                     ELSE /\ tool_results' = Append(tool_results,
                                [type |-> "tool_result", tool_use_id |-> content_block.id,
                                 content |-> r.ret])
                          /\ block_idx' = i + 1
                          /\ UNCHANGED <<result, pc>>
    /\ UNCHANGED <<max_rounds, tools_arg, tool_manager, round_num, messages, response, calls>>
    /\ UNCHANGED <<tools, last>>

\* _handle_tool_execution: after the loop over the blocks, the tool results
\* are appended if there are any and the final call is made without tools
HandleFinalCall(reply) ==
    /\ pc = "handle"
    /\ NextToolUse(response.content, block_idx) > Len(response.content)
    /\ messages' = IF tool_results # <<>>
                      THEN Append(messages, [role |-> "user", content |-> tool_results])
                      ELSE messages
    /\ last' = CallerSees(last, messages')
    /\ calls' = Append(calls, [messages |-> messages'])
    /\ IF reply.raised
       THEN result' = Raised(reply.exc)
       ELSE result' = Returned(_extract_text_response(reply))
    /\ pc' = "done"
    /\ UNCHANGED <<max_rounds, tools_arg, tool_manager, round_num, response, block_idx,
                   tool_results, dispatches>>
    /\ UNCHANGED <<tools, last_sources>>

\* the answers the stores may give to the next tool_use block of the helper
HandleAnswers ==
    IF pc = "handle" /\ NextToolUse(response.content, block_idx) <= Len(response.content)
    THEN AnswersFor(tools, response.content[NextToolUse(response.content, block_idx)].name,
                    GenSearchAnswers, GenOutlineAnswers)
    ELSE {}

NextHandle ==
    \/ \E content \in Contents, base_messages \in BaseMessages :
         HandleToolExecution([content |-> content, stop_reason |-> "tool_use"], base_messages)
    \/ \E answer \in HandleAnswers : HandleBlock(answer)
    \/ \E reply \in Replies : HandleFinalCall(reply)

SpecHandle == Init /\ [][NextHandle]_vars

-----------------------------------------------------------------------------
(* Two queries sharing one wired registry, their steps interleaved: SpecTwo. *)
(* Each query is a generate_response invocation, followed by its caller's    *)
(* read and reset of the citations.  Of the invocation only the steps that   *)
(* touch the registry are kept: its search dispatches, at most one per tool  *)
(* round.  pc and result hold one value per query, and dispatches is the     *)
(* history of the searches and resets of both queries.                       *)

Queries == {"A", "B"}

twoFrame == <<tools, max_rounds, tools_arg, tool_manager, round_num, messages, response,
              block_idx, tool_results, calls>>

InitTwo ==
    /\ tools = Wired
    /\ last_sources = [t \in SearchTools |-> <<>>]
    /\ last = [op |-> "init"]
    /\ pc = [q \in Queries |-> "idle"]
    /\ result = [q \in Queries |-> Nothing]
    /\ dispatches = <<>>
    /\ max_rounds = 0
    /\ tools_arg = Nothing
    /\ tool_manager = FALSE
    /\ round_num = 0
    /\ messages = <<>>
    /\ response = NoResponse
    /\ block_idx = 0
    /\ tool_results = <<>>
    /\ calls = <<>>

\* the searches query q has dispatched
SearchesBy(q) ==
    Cardinality({i \in 1..Len(dispatches) :
                    dispatches[i].by = q /\ dispatches[i].op = "search"})

\* generate_response is called for query q
QueryStart(q) ==
    /\ pc[q] = "idle"
    /\ pc' = [pc EXCEPT ![q] = "running"]
    /\ last' = [op |-> "generate_response", by |-> q]
    /\ UNCHANGED <<last_sources, dispatches, result>>
    /\ UNCHANGED twoFrame

\* _execute_all_tools of query q dispatches a search; a raising tool ends
\* the invocation
QuerySearch(q, answer) ==
    /\ pc[q] = "running"
    /\ SearchesBy(q) < MAX_TOOL_ROUNDS
    /\ \E r \in {execute_tool(tools, last_sources, SearchToolName, [query |-> "q"], answer)} :
           /\ last_sources' = r.last_sources
           /\ dispatches' = Append(dispatches,
                  [by |-> q, op |-> "search", answer |-> answer, raised |-> r.raised])
           /\ pc' = [pc EXCEPT ![q] = IF r.raised THEN "done" ELSE "running"]
           /\ last' = [op |-> "execute_tool", by |-> q, raised |-> r.raised]
    /\ UNCHANGED result
    /\ UNCHANGED twoFrame

\* generate_response of query q returns
QueryEnd(q) ==
    /\ pc[q] = "running"
    /\ pc' = [pc EXCEPT ![q] = "done"]
    /\ last' = [op |-> "return", by |-> q]
    /\ UNCHANGED <<last_sources, dispatches, result>>
    /\ UNCHANGED twoFrame

\* (variant: a query is given only the citations of its own searches)
QueryReadOwn(q) ==
    /\ pc[q] = "done"
    /\ \E ret \in {IF \E i \in 1..Len(dispatches) :
                         /\ dispatches[i].op = "search" /\ dispatches[i].by # q
                         /\ \A j \in (i + 1)..Len(dispatches) : dispatches[j].by # q
                    THEN <<>>
                    ELSE get_last_sources(tools, last_sources)} :
           /\ result' = [result EXCEPT ![q] = Some(ret)]
           /\ last' = [op |-> "get_last_sources", by |-> q, ret |-> ret]
    /\ pc' = [pc EXCEPT ![q] = "read"]
    /\ UNCHANGED <<last_sources, dispatches>>
    /\ UNCHANGED twoFrame

\* the caller of query q reads the citations once generate_response returned
QueryRead(q) ==
    /\ pc[q] = "done"
    /\ \E ret \in {get_last_sources(tools, last_sources)} :
           /\ result' = [result EXCEPT ![q] = Some(ret)]
           /\ last' = [op |-> "get_last_sources", by |-> q, ret |-> ret]
    /\ pc' = [pc EXCEPT ![q] = "read"]
    /\ UNCHANGED <<last_sources, dispatches>>
    /\ UNCHANGED twoFrame

\* the caller of query q clears the citations
QueryReset(q) ==
    /\ pc[q] \in {"done", "read"}
    /\ last_sources' = reset_sources(tools, last_sources)
    /\ dispatches' = Append(dispatches, [by |-> q, op |-> "reset"])
    /\ pc' = [pc EXCEPT ![q] = "cleared"]
    /\ last' = [op |-> "reset_sources", by |-> q]
    /\ UNCHANGED result
    /\ UNCHANGED twoFrame

NextTwo ==
    \E q \in Queries :
        \/ QueryStart(q)
        \/ \E answer \in GenSearchAnswers : QuerySearch(q, answer)
        \/ QueryEnd(q)
        \/ QueryRead(q)
        \/ QueryReset(q)

SpecTwo == InitTwo /\ [][NextTwo]_vars

-----------------------------------------------------------------------------
(* Properties of generate_response. *)

Running == {"round", "tools", "final", "direct"}

\* the tool rounds completed: each appended one assistant and one user message
ToolRounds == (Len(messages) - 1) \div 2

\* the last completion call offered tools
LastCallOfferedTools == calls # <<>> /\ "tools" \in DOMAIN calls[Len(calls)]

\* a tool raised in this invocation
ToolRaised == dispatches # <<>> /\ dispatches[Len(dispatches)].raised

\* C1: for max_rounds = N >= 0, one generate invocation makes at most N+1
\* completion calls, and at least 1 by the time it ends.
C1_CallBound ==
    (pc # "idle" /\ max_rounds >= 0) =>
        /\ Len(calls) <= max_rounds + 1
        /\ (pc = "done" => Len(calls) >= 1)

C1_Witness ==
    /\ pc = "done"
    /\ max_rounds >= 2
    /\ Len(calls) = max_rounds + 1

\* C2: when the completion call of round k answers with a stop reason other
\* than tool_use, the invocation ends there: k completion calls were made, all
\* of them in the loop, none follows, and the text extracted from that answer
\* is returned.
C2_EarlyTermination ==
    (/\ pc = "done"
     /\ result.kind = "return"
     /\ LastCallOfferedTools
     /\ response.stop_reason # "tool_use")
    => /\ 1 <= round_num /\ round_num <= max_rounds
       /\ Len(calls) = round_num
       /\ \A i \in 1..Len(calls) : "tools" \in DOMAIN calls[i]
       /\ ToolRounds = round_num - 1
       /\ result.value = _extract_text_response(response)

C2_Witness ==
    /\ pc = "done"
    /\ result.kind = "return"
    /\ LastCallOfferedTools
    /\ response.stop_reason = "end_turn"
    /\ round_num = 2
    /\ Len(calls) = 2
    /\ result.value = "Answer Details"

\* C3: when all N = max_rounds >= 1 rounds were tool rounds and no tool raised,
\* the first N completion calls offer the tool schemas with automatic tool
\* choice, the (N+1)-th is made with neither tools nor tool_choice, no call
\* follows it, and the text extracted from its answer is returned.
C3_ForcedSynthesis ==
    (/\ max_rounds >= 1
     /\ ToolRounds = max_rounds
     /\ ~ToolRaised)
    => /\ pc \in {"final", "done"}
       /\ Len(calls) = IF pc = "final" THEN max_rounds ELSE max_rounds + 1
       /\ \A i \in 1..max_rounds :
            /\ DOMAIN calls[i] = {"messages", "tools", "tool_choice"}
            /\ calls[i].tools = tools_arg[1]
            /\ calls[i].tools # <<>>
            /\ calls[i].tool_choice = "auto"
       /\ pc = "done" =>
            /\ DOMAIN calls[max_rounds + 1] = {"messages"}
            /\ result.kind = "return" => result.value = _extract_text_response(response)

C3_Witness ==
    /\ pc = "done"
    /\ max_rounds = 2
    /\ ToolRounds = 2
    /\ Len(calls) = 3
    /\ Len(dispatches) = 4
    /\ DOMAIN calls[3] = {"messages"}
    /\ result = Returned("Answer")

\* C4: when a tool raises during round k, the invocation ends there: k
\* completion calls were made, and neither a further round nor the final
\* synthesis call follows.
C4_ToolErrorStops ==
    \A i \in 1..Len(dispatches) :
        dispatches[i].raised =>
            /\ i = Len(dispatches)
            /\ pc = "done"
            /\ round_num = dispatches[i].round
            /\ Len(calls) = dispatches[i].round
            /\ \A j \in 1..Len(calls) : "tools" \in DOMAIN calls[j]

C4_Witness ==
    /\ pc = "done"
    /\ ToolRaised
    /\ dispatches[Len(dispatches)].round = 2
    /\ Len(calls) = 2
    /\ max_rounds = 2

\* C5: when a tool raises, generate_response does not raise: it returns
\* 'I encountered an error while searching the course materials: Tool <name>
\* failed: <message>' with the name of the failing tool and the message of
\* its exception.
C5_ToolErrorText ==
    ToolRaised =>
        result = Returned("I encountered an error while searching the course materials: Tool "
                          \o dispatches[Len(dispatches)].name \o " failed: "
                          \o dispatches[Len(dispatches)].ret)

C5_Witness ==
    /\ pc = "done"
    /\ Len(dispatches) = 2
    /\ ~dispatches[1].raised
    /\ result.kind = "return"
    /\ result.value = "I encountered an error while searching the course materials: Tool search_course_content failed: store down"

\* C6 as claimed: generate_response always ends by returning a string,
\* whatever the completion capability and the tools do, raising included.
C6_NeverRaises == pc = "done" => result.kind = "return"

\* C6 as amended: an exception raised by a tool is caught and a string is
\* returned; the only exception that leaves generate_response is one raised by
\* the completion call, which is never caught.
C6_OnlyClientErrorsPropagate ==
    pc = "done" =>
        /\ result.kind \in {"return", "raise"}
        /\ ToolRaised => result.kind = "return"
        /\ result.kind = "raise" => result.value \in ClientErrors /\ ~ToolRaised

C6_Witness ==
    /\ pc = "done"
    /\ result = Raised("APIConnectionError")
    /\ Len(calls) = 2
    /\ dispatches # <<>>

\* C7: called with tools None or [], or with no registry, generate_response
\* makes exactly one completion call, offering no tools, dispatches no tool and
\* returns the text extracted from the answer.
C7_NoToolsFastPath ==
    (/\ pc # "idle"
     /\ (tools_arg = Nothing \/ tools_arg = Some(<<>>) \/ ~tool_manager))
    => /\ pc \in {"direct", "done"}
       /\ dispatches = <<>>
       /\ messages = << [role |-> "user", content |-> "What is testing?"] >>
       /\ pc = "direct" => calls = <<>>
       /\ pc = "done" =>
            /\ Len(calls) = 1
            /\ DOMAIN calls[1] = {"messages"}
            /\ result.kind = "return" => result.value = _extract_text_response(response)

C7_Witness ==
    /\ pc = "done"
    /\ tools_arg = Some(get_tool_definitions(tools))
    /\ ~tool_manager
    /\ Len(calls) = 1
    /\ result = Returned("Answer Details")

\* C8: every generate_response invocation reaches DONE, however often the
\* model asks for tools; by then at most max_rounds tool rounds have run, and
\* a string has been returned unless the completion call itself raised.
C8_Terminates ==
    /\ (pc \in Running) ~> (pc = "done")
    /\ [](pc = "done" =>
            /\ ToolRounds <= (IF max_rounds > 0 THEN max_rounds ELSE 0)
            /\ \/ result.kind = "return"
               \/ result.kind = "raise" /\ result.value \in ClientErrors)

C8_Witness ==
    /\ pc = "done"
    /\ max_rounds = 2
    /\ ToolRounds = 2
    /\ Len(calls) = 3
    /\ response.stop_reason = "tool_use"
    /\ response.content # <<>>
    /\ result = Returned("No response generated.")

\* the step just taken is the caller's reset_sources
CallerCleared == pc = "done" /\ last'.op = "reset_sources"

\* the step just taken dispatched the search tool, which stored new citations
SearchStoredCitations ==
    /\ pc = "tools"
    /\ Len(dispatches') = Len(dispatches) + 1
    /\ dispatches'[Len(dispatches')].name = SearchToolName
    /\ ~dispatches'[Len(dispatches')].raised
    /\ get_last_sources(tools', last_sources') # <<>>

\* C11: the citations a search stored during generate_response stay as they
\* are, and get_last_sources() returns them, through every later step of the
\* invocation and after it has returned, until the caller calls
\* reset_sources(): the only steps that change stored citations are a search
\* dispatch that stores new ones and the caller's reset, and nothing but that
\* reset empties them.
C11_GenerateKeepsCitations ==
    [][ /\ last_sources' # last_sources => (CallerCleared \/ SearchStoredCitations)
        /\ \A t \in SearchTools :
              (last_sources[t] # <<>> /\ last_sources'[t] = <<>>) => CallerCleared
        /\ (pc = "done" /\ last'.op = "get_last_sources") =>
              last'.ret = get_last_sources(tools, last_sources)
      ]_vars

C11_Witness ==
    /\ pc = "done"
    /\ Len(calls) = 2
    /\ Len(dispatches) = 1
    /\ dispatches[1].round = 1
    /\ dispatches[1].name = SearchToolName
    /\ response.stop_reason = "end_turn"
    /\ result = Returned("Answer")
    /\ last.op = "get_last_sources"
    /\ last.ret = << [text |-> "MCP - Lesson 1", link |-> "https://mcp/1"] >>

\* the tool_result block that answers the tool_use block with identifier id
ToolResult(id, content) == [type |-> "tool_result", tool_use_id |-> id, content |-> content]

\* the tool results of round rnd as far as they exist: the user message the
\* round appended, or the results collected so far while the round's tools run
RoundResults(rnd) ==
    IF Len(messages) >= 2 * rnd + 1 THEN messages[2 * rnd + 1].content
    ELSE IF round_num = rnd /\ pc = "tools" THEN tool_results
    ELSE <<>>

\* C13 as claimed: a tool request that names an unregistered tool does not
\* abort generate_response: its dispatch returns the 'not found' string, that
\* string is in the round's tool results under the request's identifier, and
\* unless another tool raised, the invocation goes on to the next completion
\* call.
C13_UnknownToolRecoverable ==
    \A i \in 1..Len(dispatches) :
        dispatches[i].name \notin Names(tools) =>
            /\ ~dispatches[i].raised
            /\ dispatches[i].ret = "Tool '" \o dispatches[i].name \o "' not found"
            /\ \E k \in 1..Len(RoundResults(dispatches[i].round)) :
                  RoundResults(dispatches[i].round)[k] =
                      ToolResult(dispatches[i].id, dispatches[i].ret)
            /\ (pc = "done" /\ ~ToolRaised) => Len(calls) >= dispatches[i].round + 1

\* the roles of msgs alternate, starting with user
Alternates(msgs) ==
    /\ Len(msgs) >= 1
    /\ \A k \in 1..Len(msgs) :
          msgs[k].role = IF k % 2 = 1 THEN "user" ELSE "assistant"

\* C14: the messages passed to every completion call start with a user
\* message and alternate user / assistant, and so does the list
\* generate_response is building.
C14_RolesAlternate ==
    /\ \A i \in 1..Len(calls) : Alternates(calls[i].messages)
    /\ pc # "idle" => Alternates(messages)

C14_Witness ==
    /\ pc = "done"
    /\ Len(calls) = 3
    /\ Len(calls[3].messages) = 5
    /\ calls[3].messages[3].role = "user"
    /\ calls[3].messages[4].role = "assistant"
    /\ calls[3].messages[5].content # <<>>

\* dispatch i of this invocation called a registered tool of the given kind
\* with keywords that fit
SearchDispatch(i) ==
    /\ dispatches[i].name \in Names(tools)
    /\ ToolUnder(tools, dispatches[i].name) \in SearchTools
    /\ DOMAIN dispatches[i].input \cap BoundPositionally = {}
    /\ SearchKwargsFit(dispatches[i].input)

OutlineDispatch(i) ==
    /\ dispatches[i].name \in Names(tools)
    /\ ToolUnder(tools, dispatches[i].name) \in OutlineTools
    /\ DOMAIN dispatches[i].input \cap BoundPositionally = {}
    /\ OutlineKwargsFit(dispatches[i].input)

\* the text ret of dispatch i is fed back: the dispatch returned it, and
\* unless another tool raised after it, it is among the tool results of its
\* round under the identifier of its block and the invocation goes on to its
\* next completion call
FedBack(i, ret) ==
    /\ ~dispatches[i].raised
    /\ dispatches[i].ret = ret
    /\ ~ToolRaised =>
          /\ \E k \in 1..Len(RoundResults(dispatches[i].round)) :
                RoundResults(dispatches[i].round)[k] = ToolResult(dispatches[i].id, ret)
          /\ pc = "done" => Len(calls) >= dispatches[i].round + 1

\* C23: when store.search answers with an error, the search tool returns the
\* error string as it is and does not raise, also though the result set that
\* comes with the error is empty; inside generate_response the string is fed
\* back as a tool result and the loop goes on.
C23_SearchErrorIsText ==
    \A i \in 1..Len(dispatches) :
        (/\ SearchDispatch(i)
         /\ ~dispatches[i].answer.raised
         /\ Truthy(dispatches[i].answer.results.error))
        => FedBack(i, dispatches[i].answer.results.error)

C23_Witness ==
    /\ pc = "done"
    /\ Len(dispatches) = 1
    /\ SearchDispatch(1)
    /\ ~dispatches[1].answer.raised
    /\ dispatches[1].answer.results = SearchError
    /\ is_empty(dispatches[1].answer.results)
    /\ dispatches[1].ret = "Search error: boom"
    /\ Len(calls) = 2
    /\ calls[2].messages[3].content = << ToolResult("toolu_1", "Search error: boom") >>
    /\ result = Returned("Answer")

\* the stored lesson list an outline answer carries does not parse
LessonsUnparseable(answer) ==
    /\ ~answer.resolve_raised
    /\ Truthy(answer.course_title)
    /\ ~answer.get_raised
    /\ answer.metadatas # <<>>
    /\ "lessons_json" \in DOMAIN answer.metadatas[1]
    /\ ~answer.metadatas[1].lessons_json.ok

\* C27: a stored lesson list that does not parse does not make the outline
\* tool raise: the tool returns 'Error retrieving course outline: <message>'
\* with the message of the parser, and inside generate_response that text is
\* fed back as a tool result and the loop goes on.
C27_MalformedLessonsIsText ==
    \A i \in 1..Len(dispatches) :
        (OutlineDispatch(i) /\ LessonsUnparseable(dispatches[i].answer)) =>
            FedBack(i, "Error retrieving course outline: "
                       \o "Expecting value: line 1 column 1 (char 0)")

C27_Witness ==
    /\ pc = "done"
    /\ Len(dispatches) = 2
    /\ OutlineDispatch(1)
    /\ LessonsUnparseable(dispatches[1].answer)
    /\ ~dispatches[2].raised
    /\ Len(calls) = 2
    /\ calls[2].messages[3].content[1] =
          ToolResult("toolu_1", "Error retrieving course outline: Expecting value: line 1 column 1 (char 0)")
    /\ result = Returned("Answer Details")

\* the texts of the text-typed blocks of content, in block order
TextsByType(content) ==
    LET IsText(block) == block.type = "text"
        textBlocks == SelectSeq(content, IsText)
    IN  [k \in 1..Len(textBlocks) |-> textBlocks[k].text]

\* generate_response returned the text of the answer it received last
AnswerReturned ==
    /\ pc = "done"
    /\ result.kind = "return"
    /\ ~ToolRaised

\* C29: the text returned for an answer is the texts of its text-typed blocks
\* in block order, joined by single spaces; it is one fixed string when the
\* answer has no content blocks and another fixed string when it has blocks
\* but no text-typed one.
C29_TextExtraction ==
    AnswerReturned =>
        result.value =
            IF Len(response.content) = 0
            THEN "I apologize, but I encountered an issue processing your request."
            ELSE IF Len(TextsByType(response.content)) = 0
            THEN "No response generated."
            ELSE Join(" ", TextsByType(response.content))

C29_Witness ==
    /\ AnswerReturned
    /\ tools_arg = Nothing
    /\ Len(response.content) = 2
    /\ TextsByType(response.content) = << "Answer", "Details" >>
    /\ result = Returned("Answer Details")

\* the tool-call blocks of content, in block order
ToolUseBlocks(content) ==
    LET IsToolUse(block) == block.type = "tool_use"
    IN  SelectSeq(content, IsToolUse)

\* the dispatches of round rnd, in the order they were made
RoundDispatches(rnd) ==
    LET InRound(d) == d.round = rnd
    IN  SelectSeq(dispatches, InRound)

\* round rnd ran all its tools without one of them raising
RoundCompleted(rnd) == Len(messages) >= 2 * rnd + 1

\* C30: in a round where no tool raises, every tool-call block of the response
\* is dispatched exactly once, in block order, and the round appends exactly
\* one user message, whose tool results are in that order, one per tool-call
\* block, each under the identifier of its block.
C30_RoundDispatchesInOrder ==
    \A rnd \in 1..Len(messages) :
        RoundCompleted(rnd) =>
            LET blocks == ToolUseBlocks(messages[2 * rnd].content)
                ds == RoundDispatches(rnd)
            IN  /\ messages[2 * rnd].role = "assistant"
                /\ Len(ds) = Len(blocks)
                /\ \A k \in 1..Len(blocks) :
                       /\ ds[k].id = blocks[k].id
                       /\ ds[k].name = blocks[k].name
                       /\ ds[k].input = blocks[k].input
                       /\ ~ds[k].raised
                /\ messages[2 * rnd + 1] =
                       [role |-> "user",
                        content |-> [k \in 1..Len(blocks) |->
                                        ToolResult(blocks[k].id, ds[k].ret)]]
                /\ Len(messages) > 2 * rnd + 1 =>
                       messages[2 * rnd + 2].role = "assistant"

C30_Witness ==
    /\ RoundCompleted(1)
    /\ Len(messages[2].content) = 3
    /\ Len(ToolUseBlocks(messages[2].content)) = 2
    /\ Len(dispatches) >= 2
    /\ dispatches[1].id = "toolu_1" /\ dispatches[2].id = "toolu_2"
    /\ dispatches[1].ret # dispatches[2].ret
    /\ messages[3].content = << ToolResult("toolu_1", dispatches[1].ret),
                                ToolResult("toolu_2", dispatches[2].ret) >>

\* a step of generate_response that dispatches a tool
Dispatching == Len(dispatches') > Len(dispatches)

\* a step of generate_response that issues a completion call
Calling == Len(calls') > Len(calls)

\* the invocation has made its completion call without tools
SynthesisCalled == pc # "idle" /\ calls # <<>> /\ ~LastCallOfferedTools

\* C31: the events of one generate invocation are strictly sequential: a tool
\* of round k is dispatched when completion call k, which offered tools, has
\* returned with stop reason 'tool_use' and call k+1 has not been issued; a
\* completion call is issued only when every dispatch made so far belongs to
\* an earlier round; and no tool is dispatched once the completion call
\* without tools has been made, whatever its answer holds.
C31_StrictlySequential ==
    [][ /\ Dispatching =>
             /\ calls' = calls
             /\ pc = "tools"
             /\ Len(dispatches') = Len(dispatches) + 1
             /\ dispatches'[Len(dispatches')].round = Len(calls)
             /\ LastCallOfferedTools
             /\ response.stop_reason = "tool_use"
        /\ Calling =>
             /\ dispatches' = dispatches
             /\ Len(calls') = Len(calls) + 1
             /\ \A i \in 1..Len(dispatches) : dispatches[i].round < Len(calls')
        /\ SynthesisCalled => ~Dispatching
      ]_vars

C31_Witness ==
    /\ pc = "done"
    /\ SynthesisCalled
    /\ Len(calls) = 3
    /\ response.stop_reason = "tool_use"
    /\ Len(ToolUseBlocks(response.content)) = 2
    /\ Len(dispatches) = 3
    /\ dispatches[1].round = 1
    /\ dispatches[2].round = 2 /\ dispatches[3].round = 2

\* the rounds of this invocation in which a tool was dispatched
DispatchRounds == {dispatches[i].round : i \in 1..Len(dispatches)}

\* the rounds a value of max_rounds allows: none when it is zero or negative
RoundsAllowed(n) == IF n > 0 THEN n ELSE 0

\* C32 as claimed: the number of rounds in which generate dispatches a tool
\* never exceeds max_rounds and the message sequence never has more than
\* 1 + 2*max_rounds entries.
C32_BoundedByMaxRounds ==
    pc # "idle" =>
        /\ Cardinality(DispatchRounds) <= max_rounds
        /\ Len(messages) <= 1 + 2 * max_rounds

\* C32: for max_rounds >= 0 the number of rounds in which generate dispatches
\* a tool never exceeds max_rounds and the message sequence never has more
\* than 1 + 2*max_rounds entries, also when every answer requests a tool; for
\* a negative max_rounds no round runs and the sequence stays at the one
\* message it was seeded with.
C32_BoundedByRoundsAllowed ==
    pc # "idle" =>
        /\ Cardinality(DispatchRounds) <= RoundsAllowed(max_rounds)
        /\ DispatchRounds \subseteq 1..RoundsAllowed(max_rounds)
        /\ Len(messages) >= 1
        /\ Len(messages) <= 1 + 2 * RoundsAllowed(max_rounds)

C32_Witness ==
    /\ pc = "done"
    /\ max_rounds = 2
    /\ DispatchRounds = {1, 2}
    /\ Len(messages) = 5
    /\ Len(calls) = 3
    /\ response.stop_reason = "tool_use"
    /\ \A i \in 1..Len(calls) : i < Len(calls) => "tools" \in DOMAIN calls[i]

\* a step of a generate invocation that has dispatched no search so far,
\* this step included
StepWithoutSearch ==
    /\ pc \in {"idle"} \cup Running
    /\ \A i \in 1..Len(dispatches') : dispatches'[i].name # SearchToolName

\* C34: a generate invocation that dispatches no search leaves the citations
\* of the registry as they were, on the fast path, on early termination and
\* through outline-only rounds: none of its steps changes what
\* get_last_sources() returns, so citations that were empty before the call
\* are empty after it.
C34_NoSearchKeepsCitations ==
    [][ StepWithoutSearch =>
          /\ last_sources' = last_sources
          /\ get_last_sources(tools', last_sources') = get_last_sources(tools, last_sources)
      ]_vars

C34_Witness ==
    /\ pc = "done"
    /\ last.op = "generate_response"
    /\ result.kind = "return"
    /\ Len(messages) = 3
    /\ Len(dispatches) = 1
    /\ dispatches[1].name = OutlineToolName
    /\ ~dispatches[1].raised
    /\ get_last_sources(tools, last_sources) = <<>>

\* the message sequence as completion call k must have received it: the seed
\* message, then per earlier round the assistant message with the request
\* and the user message with the results
CallMessages(k) == SubSeq(messages, 1, 2 * k - 1)

\* C35: the message sequence only grows: completion call k receives exactly
\* 2k-1 messages, the first of them the user message with the raw query, and
\* the sequence of call k+1 is that of call k followed by one assistant
\* message with the tool requests and one user message with the tool results.
C35_MessagesAppendOnly ==
    pc # "idle" =>
        /\ \A k \in 1..Len(calls) :
              /\ Len(calls[k].messages) = 2 * k - 1
              /\ calls[k].messages[1] = [role |-> "user", content |-> "What is testing?"]
              /\ calls[k].messages = CallMessages(k)
        /\ \A k \in 1..(Len(calls) - 1) :
              /\ SubSeq(calls[k + 1].messages, 1, 2 * k - 1) = calls[k].messages
              /\ calls[k + 1].messages[2 * k].role = "assistant"
              /\ ToolUseBlocks(calls[k + 1].messages[2 * k].content)
                    = [i \in 1..Len(RoundDispatches(k)) |->
                          ToolUseBlock(RoundDispatches(k)[i].id, RoundDispatches(k)[i].name,
                                       RoundDispatches(k)[i].input)]
              /\ calls[k + 1].messages[2 * k + 1]
                    = [role |-> "user",
                       content |-> [i \in 1..Len(RoundDispatches(k)) |->
                                       ToolResult(RoundDispatches(k)[i].id,
                                                  RoundDispatches(k)[i].ret)]]

C35_Witness ==
    /\ pc = "done"
    /\ Len(calls) = 3
    /\ Len(calls[1].messages) = 1
    /\ Len(calls[2].messages) = 3
    /\ Len(calls[3].messages) = 5
    /\ calls[3].messages[2].content # calls[3].messages[4].content
    /\ calls[3].messages[5].content # <<>>

\* a step in which a round's completion call is answered, not raising
RoundAnswered == pc = "round" /\ Calling /\ result'.kind # "raise"

\* the tools of a round are to be run and its answer holds no tool-call block
EmptyRound == pc = "tools" /\ ToolUseBlocks(response.content) = <<>>

\* C38: the stop reason alone decides about tool dispatch.  An answer whose
\* stop reason is not 'tool_use' ends the invocation with its text and
\* without a dispatch, whatever blocks it holds.  An answer whose stop reason
\* is 'tool_use' starts a round, whatever blocks it holds: the assistant
\* message is appended, and a round without tool-call block dispatches
\* nothing, appends a user message with an empty result list and goes on to
\* the next completion call.
C38_StopReasonDecides ==
    [][ /\ Dispatching => pc = "tools" /\ response.stop_reason = "tool_use"
        /\ (RoundAnswered /\ response'.stop_reason # "tool_use") =>
              /\ pc' = "done"
              /\ result' = Returned(_extract_text_response(response'))
              /\ dispatches' = dispatches
              /\ messages' = messages
        /\ (RoundAnswered /\ response'.stop_reason = "tool_use") =>
              /\ pc' = "tools"
              /\ messages' = Append(messages,
                                    [role |-> "assistant", content |-> response'.content])
              /\ dispatches' = dispatches
        /\ EmptyRound =>
              /\ messages' = Append(messages, [role |-> "user", content |-> <<>>])
              /\ dispatches' = dispatches
              /\ calls' = calls
              /\ pc' \in {"round", "final"}
              /\ pc' = "round" => round_num' = round_num + 1
              /\ pc' = "final" => round_num = max_rounds
      ]_vars

C38_Witness ==
    /\ pc = "done"
    /\ Len(calls) = 2
    /\ LastCallOfferedTools
    /\ dispatches = <<>>
    /\ messages[2] = [role |-> "assistant", content |-> << TextBlock("Answer") >>]
    /\ messages[3] = [role |-> "user", content |-> <<>>]
    /\ response.stop_reason = "end_turn"
    /\ Len(ToolUseBlocks(response.content)) = 2
    /\ result = Returned("Checking")

\* tool schemas and a registry were passed, but no round is allowed
NoRoundAllowed ==
    /\ pc # "idle"
    /\ tools_arg # Nothing /\ tools_arg[1] # <<>>
    /\ tool_manager
    /\ max_rounds <= 0

\* C39: with tool schemas and a registry supplied but max_rounds zero or
\* negative, generate makes exactly one completion call, which offers no
\* tools, and dispatches no tool.
C39_ZeroRoundsOneCall ==
    NoRoundAllowed =>
        /\ pc \in {"final", "done"}
        /\ dispatches = <<>>
        /\ Len(messages) = 1
        /\ Len(calls) = IF pc = "done" THEN 1 ELSE 0
        /\ \A i \in 1..Len(calls) :
              /\ "tools" \notin DOMAIN calls[i]
              /\ "tool_choice" \notin DOMAIN calls[i]

C39_Witness ==
    /\ NoRoundAllowed
    /\ max_rounds = 0
    /\ pc = "done"
    /\ Len(calls) = 1
    /\ response.stop_reason = "tool_use"
    /\ Len(ToolUseBlocks(response.content)) = 1
    /\ result.kind = "return"

-----------------------------------------------------------------------------
(* Properties of the registry and its tools. *)

\* a search tool has just been executed through the registry and returned
SearchReturned ==
    /\ last.op = "execute_tool"
    /\ last.tool \in SearchTools
    /\ ~last.raised

\* C9 as claimed: after an execution of the search tool its stored citation
\* list holds one Source per result of that execution, none when that
\* execution returned an error or an empty result set.
C9_OneSourcePerResult ==
    SearchReturned =>
        Len(last_sources[last.tool]) =
            IF Truthy(last.answer.results.error) THEN 0
            ELSE Len(last.answer.results.documents)

\* the citation text of a result with chunk metadata meta
CitationText(meta) ==
    (IF "course_title" \in DOMAIN meta THEN meta.course_title ELSE "unknown")
    \o (IF "lesson_number" \in DOMAIN meta
          THEN " - Lesson " \o ToString(meta.lesson_number) ELSE "")

\* C10: after a search execution that returned N >= 1 results,
\* get_last_sources() returns N sources, the i-th naming the i-th result, each
\* with a non-empty text; after reset_sources() it returns the empty list.
C10_CitationsReadAndCleared ==
    /\ (SearchReturned /\ ~is_empty(last.answer.results)) =>
          LET cites == get_last_sources(tools, last_sources)
              metadata == last.answer.results.metadata
          IN  /\ Len(cites) = Len(last.answer.results.documents)
              /\ \A i \in 1..Len(cites) :
                    /\ cites[i].text = CitationText(metadata[i])
                    /\ Len(cites[i].text) >= 1
    /\ last.op = "reset_sources" => get_last_sources(tools, last_sources) = <<>>

C10_Witness ==
    /\ SearchReturned
    /\ Len(last.answer.results.documents) = 2
    /\ get_last_sources(tools, last_sources) =
          << [text |-> "unknown - Lesson 0", link |-> None],
             [text |-> "MCP - Lesson 1", link |-> "https://mcp/1"] >>

\* a name that is not registered has just been dispatched
UnknownDispatched ==
    /\ last.op = "execute_tool"
    /\ last.tool = None

\* C12 as claimed: execute_tool for a name that is not registered returns
\* "Tool '<name>' not found" and does not raise, whatever the registry holds
\* and whatever the keyword arguments are.
C12_UnknownToolNotFound ==
    UnknownDispatched =>
        /\ ~last.raised
        /\ last.ret = "Tool '" \o last.tool_name \o "' not found"

\* the definition of a tool lacks a usable name
Unnamed(tool) ==
    \/ "name" \notin DOMAIN get_tool_definition(tool)
    \/ ~Truthy(get_tool_definition(tool).name)

\* C15: register_tool raises exactly for a tool whose definition lacks a name
\* (or has an empty one), and the failed call stores nothing: the name-to-tool
\* mapping and the tools' citations are what they were before it.
C15_UnnamedRejected ==
    [][ last'.op = "register_tool" =>
          /\ last'.raised <=> Unnamed(last'.tool)
          /\ last'.raised => (tools' = tools /\ last_sources' = last_sources)
          /\ ~last'.raised => tools' # <<>>
      ]_vars

C15_Witness ==
    /\ last = [op |-> "register_tool", tool |-> "unnamed1", raised |-> TRUE]
    /\ Len(tools) = 2
    /\ Names(tools) = {SearchToolName, OutlineToolName}

\* the names of the definitions get_tool_definitions returns, in order
DefNames(tls) == [i \in 1..Len(tls) |-> get_tool_definitions(tls)[i].name]

\* C16: whatever has been registered, get_tool_definitions() holds for every
\* tool in the registry the definition of that tool, under the name the tool
\* declares, one definition per registered name; a tool that has just been
\* registered is among them.
C16_SchemasMatchTools ==
    /\ Len(get_tool_definitions(tools)) = Cardinality(Names(tools))
    /\ \A i \in 1..Len(tools) :
          /\ get_tool_definitions(tools)[i] = get_tool_definition(tools[i].tool)
          /\ get_tool_definitions(tools)[i].name = tools[i].name
    /\ (last.op = "register_tool" /\ ~last.raised) =>
          \E i \in 1..Len(tools) :
              /\ tools[i].tool = last.tool
              /\ DefNames(tools)[i] = get_tool_definition(last.tool).name
    /\ last.op = "get_tool_definitions" => last.ret = get_tool_definitions(tools)

C16_Witness ==
    /\ last = [op |-> "register_tool", tool |-> "search2", raised |-> FALSE]
    /\ DefNames(tools) = <<OutlineToolName, SearchToolName>>
    /\ last_sources["search1"] # <<>>

\* C17: get_tool_definitions() lists the definitions in the order in which
\* their names were first registered: registering a new name adds its
\* definition at the end, registering a name again leaves the order of names
\* as it is, and no other operation changes what the call returns.
C17_RegistrationOrder ==
    [][ /\ (last'.op = "register_tool" /\ ~last'.raised) =>
              LET name == get_tool_definition(last'.tool).name
              IN  IF name \in Names(tools)
                  THEN DefNames(tools') = DefNames(tools)
                  ELSE get_tool_definitions(tools') =
                           Append(get_tool_definitions(tools),
                                  get_tool_definition(last'.tool))
        /\ ~(last'.op = "register_tool" /\ ~last'.raised) =>
              get_tool_definitions(tools') = get_tool_definitions(tools)
        /\ last'.op = "get_tool_definitions" => last'.ret = get_tool_definitions(tools)
      ]_vars

C17_Witness ==
    /\ last = [op |-> "get_tool_definitions",
               ret |-> << [name |-> OutlineToolName], [name |-> SearchToolName] >>]
    /\ tools[2].tool = "search2"

\* every search tool in the registry has an empty source list
NoneHoldsSources(tls, srcs) ==
    \A t \in RegisteredTools(tls) \cap SearchTools : srcs[t] = <<>>

\* C18: when a tool is registered under a name that is taken, it replaces the
\* tool held under that name: the registry holds one tool and one definition
\* per name, execute_tool of the name runs the later tool and touches no other,
\* and the replaced tool is neither read by get_last_sources() nor reset by
\* reset_sources().
C18_LastRegistrationWins ==
    [][ /\ \A i, j \in 1..Len(tools') : tools'[i].name = tools'[j].name => i = j
        /\ Len(get_tool_definitions(tools')) = Cardinality(Names(tools'))
        /\ (last'.op = "register_tool" /\ ~last'.raised) =>
              /\ ToolUnder(tools', get_tool_definition(last'.tool).name) = last'.tool
              /\ Len(tools') = IF get_tool_definition(last'.tool).name \in Names(tools)
                                 THEN Len(tools) ELSE Len(tools) + 1
        /\ (last'.op = "execute_tool" /\ last'.tool_name \in Names(tools)) =>
              /\ last'.tool = ToolUnder(tools, last'.tool_name)
              /\ \A t \in SearchTools \ {last'.tool} : last_sources'[t] = last_sources[t]
        /\ last'.op = "get_last_sources" =>
              /\ NoneHoldsSources(tools, last_sources) => last'.ret = <<>>
              /\ last'.ret # <<>> =>
                    \E t \in RegisteredTools(tools) \cap SearchTools :
                        last'.ret = last_sources[t]
        /\ last'.op = "reset_sources" =>
              \A t \in SearchTools \ RegisteredTools(tools) :
                  last_sources'[t] = last_sources[t]
      ]_vars

C18_Witness ==
    /\ last = [op |-> "get_last_sources", ret |-> <<>>]
    /\ Names(tools) = {SearchToolName}
    /\ ToolUnder(tools, SearchToolName) = "search2"
    /\ last_sources["search1"] # <<>>
    /\ last_sources["search2"] = <<>>

\* the positions in the registry of the tools that hold sources
Holders(tls, srcs) ==
    {i \in 1..Len(tls) : tls[i].tool \in SearchTools /\ srcs[tls[i].tool] # <<>>}

\* C19: get_last_sources() returns the stored sources of the first tool, in
\* the order of the registry, whose stored list is not empty, and the empty
\* list when no registered tool holds sources; it changes neither the registry
\* nor any stored list, so a second call returns the same value.
C19_FirstHolderRead ==
    [][ last'.op = "get_last_sources" =>
          /\ tools' = tools
          /\ last_sources' = last_sources
          /\ Holders(tools, last_sources) = {} => last'.ret = <<>>
          /\ \A i \in Holders(tools, last_sources) :
                (\A j \in Holders(tools, last_sources) : i <= j) =>
                    last'.ret = last_sources[tools[i].tool]
          /\ get_last_sources(tools', last_sources') = last'.ret
      ]_vars

C19_Witness ==
    /\ last.op = "get_last_sources"
    /\ Len(tools) = 3
    /\ tools[1].tool = "notes1"
    /\ tools[3].tool = "search1"
    /\ last_sources["notes1"] # <<>>
    /\ last_sources["search1"] # <<>>
    /\ last_sources["search1"] # last_sources["notes1"]
    /\ last.ret = last_sources["notes1"]

\* C20: reset_sources() empties the stored sources of every registered tool
\* that tracks sources and leaves the registry as it is; a second call changes
\* nothing.
C20_ResetClearsAll ==
    [][ last'.op = "reset_sources" =>
          /\ tools' = tools
          /\ \A t \in RegisteredTools(tools) \cap SearchTools : last_sources'[t] = <<>>
          /\ Holders(tools', last_sources') = {}
          /\ reset_sources(tools', last_sources') = last_sources'
      ]_vars

C20_Witness ==
    /\ last.op = "reset_sources"
    /\ Len(tools) = 3
    /\ {"notes1", "search2"} \subseteq RegisteredTools(tools)
    /\ last_sources["notes1"] = <<>>
    /\ last_sources["search2"] = <<>>
    /\ last_sources["search1"] # <<>>

\* a registered tool has just been called through the registry: the keywords
\* were bound by execute_tool and the tool's execute was entered or its own
\* binding of the keywords failed
ToolCalled ==
    /\ last.op = "execute_tool"
    /\ last.tool # None
    /\ DOMAIN last.kwargs \cap BoundPositionally = {}

\* C21: what a registered tool raises while it executes leaves execute_tool as
\* it is: the call raises, with the exception of the tool (the exception of
\* the store the tool called, or the TypeError of keywords that do not fit the
\* tool's execute).
C21_ToolErrorPropagates ==
    ToolCalled =>
        /\ (last.tool \in SearchTools /\ ~SearchKwargsFit(last.kwargs)) =>
              (last.raised /\ last.ret = "execute() got bad arguments")
        /\ (last.tool \in SearchTools /\ SearchKwargsFit(last.kwargs) /\ last.answer.raised) =>
              (last.raised /\ last.ret = last.answer.exc)
        /\ (last.tool \in OutlineTools /\ ~OutlineKwargsFit(last.kwargs)) =>
              (last.raised /\ last.ret = "execute() got bad arguments")
        /\ (last.tool \in OutlineTools /\ OutlineKwargsFit(last.kwargs)
              /\ last.answer.resolve_raised) =>
              (last.raised /\ last.ret = "store down")

C21_Witness ==
    /\ ToolCalled
    /\ last.tool = "search1"
    /\ last.kwargs = [query |-> "q"]
    /\ last.answer = SearchRaises
    /\ last.raised
    /\ last.ret = "store down"
    /\ last_sources["search1"] # <<>>

\* the search tool has just returned for a search that found nothing
SearchFoundNothing ==
    /\ SearchReturned
    /\ ~Truthy(last.answer.results.error)
    /\ is_empty(last.answer.results)

\* C22 as claimed: for an empty result set the search tool returns
\* 'No relevant content found', then " in course '<X>'" exactly when a
\* course_name was given, then " in lesson <N>" exactly when a lesson_number
\* was given, whatever the number, 0 included.
C22_NoContentNamesFilters ==
    SearchFoundNothing =>
        last.ret = "No relevant content found"
                   \o (IF "course_name" \in DOMAIN last.kwargs
                         THEN " in course '" \o last.kwargs.course_name \o "'" ELSE "")
                   \o (IF "lesson_number" \in DOMAIN last.kwargs
                         THEN " in lesson " \o ToString(last.kwargs.lesson_number) ELSE "")
                   \o "."

\* the entry of the result doc with chunk metadata meta, as C24 words it
Entry(doc, meta) ==
    LET title == IF "course_title" \in DOMAIN meta THEN meta.course_title ELSE "unknown"
    IN  (IF "lesson_number" \in DOMAIN meta
           THEN "[" \o title \o " - Lesson " \o ToString(meta.lesson_number) \o "]"
           ELSE "[" \o title \o "]")
        \o "\n" \o doc

\* C24: for a result set that is not empty the search tool returns one entry
\* per result, in the order of the results and separated by blank lines, each
\* the header '[<course_title>]' or '[<course_title> - Lesson <n>]' and then
\* the document; it stores one Source per result, whose link is None whenever
\* the result has no lesson number.
C24_ResultsFormatted ==
    (SearchReturned /\ ~Truthy(last.answer.results.error) /\ ~is_empty(last.answer.results)) =>
        LET documents == last.answer.results.documents
            metadata == last.answer.results.metadata
            sources == last_sources[last.tool]
        IN  /\ last.ret = Join("\n\n", [i \in 1..Len(documents) |->
                                           Entry(documents[i], metadata[i])])
            /\ Len(sources) = Len(documents)
            /\ \A i \in 1..Len(documents) :
                  "lesson_number" \notin DOMAIN metadata[i] => sources[i].link = None

C24_Witness ==
    /\ SearchReturned
    /\ last.ret = "[MCP]\nbeta\n\n[MCP - Lesson 1]\nalpha"
    /\ last_sources[last.tool] = << [text |-> "MCP", link |-> None],
                                    [text |-> "MCP - Lesson 1", link |-> "https://mcp/1"] >>

\* C25: executing the outline tool stores no citations and touches none: the
\* stored sources of every tool, and so what get_last_sources() returns, are
\* the same after the call as before it, whether the call returns or raises.
C25_OutlineKeepsCitations ==
    [][ (last'.op = "execute_tool" /\ last'.tool \in OutlineTools) =>
          /\ last_sources' = last_sources
          /\ tools' = tools
          /\ get_last_sources(tools', last_sources') = get_last_sources(tools, last_sources)
      ]_vars

C25_Witness ==
    /\ last.op = "execute_tool"
    /\ last.tool = "outline1"
    /\ ~last.raised
    /\ last.ret = "Course: MCP\nCourse Link: https://mcp\n\nLessons (2 total):\n  Lesson 1: Intro\n  Lesson 2: Tools"
    /\ get_last_sources(tools, last_sources) =
          << [text |-> "MCP - Lesson 1", link |-> "https://mcp/1"] >>

\* the outline tool has just been executed and the name was looked up
OutlineLookedUp ==
    /\ ToolCalled
    /\ last.tool \in OutlineTools
    /\ OutlineKwargsFit(last.kwargs)
    /\ ~last.answer.resolve_raised

\* C26: the outline tool returns "No course found matching '<course_name>'"
\* when the name does not resolve, whatever a fetch of the metadata would have
\* done, and "Course metadata not found for '<title>'" when the name resolves
\* and the catalog holds no metadata for the title; it raises in neither case.
C26_OutlineNotFoundTexts ==
    OutlineLookedUp =>
        /\ ~Truthy(last.answer.course_title) =>
              /\ ~last.raised
              /\ last.ret = "No course found matching '" \o last.kwargs.course_name \o "'"
        /\ (/\ Truthy(last.answer.course_title)
            /\ ~last.answer.get_raised
            /\ last.answer.metadatas = <<>>) =>
              /\ ~last.raised
              /\ last.ret = "Course metadata not found for '" \o last.answer.course_title \o "'"

C26_Witness ==
    /\ OutlineLookedUp
    /\ last.answer = OutlineAnswer(FALSE, None, TRUE, <<>>)
    /\ last.ret = "No course found matching 'MCP'"

\* the outline tool has just returned for a course whose metadata is stored
\* and whose lesson list parses
OutlineFound ==
    /\ OutlineLookedUp
    /\ Truthy(last.answer.course_title)
    /\ ~last.answer.get_raised
    /\ last.answer.metadatas # <<>>
    /\ ("lessons_json" \in DOMAIN last.answer.metadatas[1] =>
            last.answer.metadatas[1].lessons_json.ok)

\* the lines of an outline after the first, as C28 words them: the optional
\* link, an empty line, the count, one line per lesson
RECURSIVE LessonLines(_)
LessonLines(lessons) ==
    IF lessons = <<>> THEN ""
    ELSE "\n  Lesson "
         \o (IF "lesson_number" \in DOMAIN lessons[1]
               THEN ToString(lessons[1].lesson_number) ELSE "?")
         \o ": "
         \o (IF "lesson_title" \in DOMAIN lessons[1] THEN lessons[1].lesson_title ELSE "Unknown")
         \o LessonLines(Tail(lessons))

\* C28: for a resolved course with stored metadata the outline is
\* 'Course: <title>', the course link if there is one, an empty line,
\* 'Lessons (<count> total):' with the number of stored lessons, and one line
\* '  Lesson <n>: <title>' per stored lesson, in the stored order.
C28_OutlineFormatted ==
    OutlineFound =>
        LET metadata == last.answer.metadatas[1]
            lessons == IF "lessons_json" \in DOMAIN metadata
                         THEN metadata.lessons_json.value ELSE <<>>
        IN  /\ ~last.raised
            /\ last.ret =
                  "Course: "
                  \o (IF "title" \in DOMAIN metadata THEN metadata.title ELSE "Unknown")
                  \o (IF "course_link" \in DOMAIN metadata
                        THEN "\nCourse Link: " \o metadata.course_link ELSE "")
                  \o "\n\nLessons (" \o ToString(Len(lessons)) \o " total):"
                  \o LessonLines(lessons)

C28_Witness ==
    /\ OutlineFound
    /\ last.ret = "Course: Unknown\n\nLessons (3 total):\n  Lesson 2: Tools\n  Lesson ?: Extra\n  Lesson 1: Intro"

-----------------------------------------------------------------------------
(* Properties of several searches in one invocation. *)

\* dispatch d of generate_response is a search that found results
SearchFound(d) ==
    /\ d.name = SearchToolName
    /\ ~d.raised
    /\ ~d.answer.raised
    /\ ~Truthy(d.answer.results.error)
    /\ Len(d.answer.results.documents) > 0

\* the citation texts of the results of one search execution
ExecutionTexts(answer) ==
    [i \in 1..Len(answer.results.metadata) |-> CitationText(answer.results.metadata[i])]

\* the citation texts that get_last_sources() would return now
ReadableTexts ==
    [i \in 1..Len(get_last_sources(tools, last_sources)) |->
        get_last_sources(tools, last_sources)[i].text]

\* the searches of this invocation that found results, by position
FoundSearches == {i \in 1..Len(dispatches) : SearchFound(dispatches[i])}

\* C36: the citations readable from the registry are never a merge of several
\* search executions: at any time they are the citations of one execution,
\* and once searches of this generate invocation have found results (in one
\* round or in several) they are those of exactly one of them, the last.
C36_CitationsOfOneSearch ==
    /\ \/ ReadableTexts = <<>>
       \/ \E answer \in GenSearchAnswers :
             /\ ~answer.raised
             /\ ReadableTexts = ExecutionTexts(answer)
    /\ (pc # "idle" /\ last.op = "generate_response" /\ FoundSearches # {}) =>
          \E i \in FoundSearches :
             /\ \A j \in FoundSearches : j <= i
             /\ ReadableTexts = ExecutionTexts(dispatches[i].answer)

C36_Witness ==
    /\ pc = "done"
    /\ last.op = "generate_response"
    /\ FoundSearches = {1, 2}
    /\ dispatches[1].round = 1 /\ dispatches[2].round = 1
    /\ ExecutionTexts(dispatches[1].answer) = << "MCP - Lesson 1" >>
    /\ ExecutionTexts(dispatches[2].answer) = << "MCP", "unknown - Lesson 0" >>
    /\ ReadableTexts = << "MCP", "unknown - Lesson 0" >>

\* the invocation has ended on a tool that raised, and its caller has not
\* touched the registry yet
EndedOnToolError ==
    /\ pc = "done"
    /\ last.op = "generate_response"
    /\ ToolRaised

\* C37: when a tool raises in a round, the tool-call blocks after the failing
\* one are never dispatched, no user message with tool results is appended
\* for that round (the results of the blocks that ran before are dropped),
\* and the citations stored by the searches that ran before stay in the
\* registry.
C37_FailingRoundDropsResults ==
    EndedOnToolError =>
        LET failed == dispatches[Len(dispatches)]
            blocks == ToolUseBlocks(messages[Len(messages)].content)
            ran == RoundDispatches(failed.round)
        IN  /\ Len(messages) = 2 * failed.round
            /\ messages[Len(messages)].role = "assistant"
            /\ Len(calls) = failed.round
            /\ Len(ran) <= Len(blocks)
            /\ \A k \in 1..Len(ran) :
                   /\ ran[k].id = blocks[k].id
                   /\ ran[k].raised <=> k = Len(ran)
            /\ \A i \in 1..Len(dispatches) : dispatches[i].round <= failed.round
            /\ \A i \in 1..Len(messages) :
                   messages[i].role = "user" /\ i > 1 => i < 2 * failed.round
            /\ FoundSearches # {} =>
                   \E i \in FoundSearches :
                      /\ \A j \in FoundSearches : j <= i
                      /\ ReadableTexts = ExecutionTexts(dispatches[i].answer)

C37_Witness ==
    /\ EndedOnToolError
    /\ Len(messages) = 2
    /\ Len(ToolUseBlocks(messages[2].content)) = 2
    /\ Len(dispatches) = 2
    /\ FoundSearches = {1}
    /\ dispatches[2].id = "toolu_2"
    /\ ReadableTexts = << "MCP", "unknown - Lesson 0" >>
    /\ result.kind = "return"

-----------------------------------------------------------------------------
(* Properties of two queries on one registry. *)

\* event e of the history is a search that found results
FoundResults(e) ==
    /\ e.op = "search"
    /\ ~e.raised
    /\ ~Truthy(e.answer.results.error)
    /\ Len(e.answer.results.documents) > 0

\* the citation texts of the results of search event e
CitationTextsOf(e) ==
    [i \in 1..Len(e.answer.results.metadata) |-> CitationText(e.answer.results.metadata[i])]

\* the citation texts the history leaves in the registry: those of the last
\* search that found results, of whichever query, unless a reset came after it
RECURSIVE SharedCitationTexts(_)
SharedCitationTexts(events) ==
    IF events = <<>> THEN <<>>
    ELSE LET e == events[Len(events)]
         IN  IF e.op = "reset" THEN <<>>
             ELSE IF FoundResults(e) THEN CitationTextsOf(e)
             ELSE SharedCitationTexts(SubSeq(events, 1, Len(events) - 1))

\* C33: the registry gives no isolation between two queries that share it:
\* what a query reads after its generate invocation has ended is what the
\* searches and resets of both queries together left in the registry, so
\* there is an interleaving in which query A reads the citations of a search
\* that query B dispatched (and one in which B's reset empties A's citations
\* before A reads them).
C33_NoIsolation ==
    [][ \A q \in Queries :
          (pc[q] = "done" /\ pc'[q] = "read") =>
              /\ result'[q] # Nothing
              /\ [i \in 1..Len(result'[q][1]) |-> result'[q][1][i].text]
                    = SharedCitationTexts(dispatches)
      ]_vars

C33_Witness ==
    /\ pc["A"] = "read"
    /\ \E i, j \in 1..Len(dispatches) :
          /\ i < j
          /\ dispatches[i].by = "A" /\ FoundResults(dispatches[i])
          /\ dispatches[j].by = "B" /\ FoundResults(dispatches[j])
          /\ CitationTextsOf(dispatches[i]) = << "MCP - Lesson 1" >>
          /\ CitationTextsOf(dispatches[j]) = << "MCP", "unknown - Lesson 0" >>
          /\ \A k \in (j + 1)..Len(dispatches) : dispatches[k].by = "B"
    /\ result["A"] # Nothing
    /\ [i \in 1..Len(result["A"][1]) |-> result["A"][1][i].text]
          = << "MCP", "unknown - Lesson 0" >>

-----------------------------------------------------------------------------
(* Properties of the single-round helper. *)

\* _handle_tool_execution has been called
Handling == pc # "idle" /\ last.op = "_handle_tool_execution"

\* the results of the dispatches made, as tool_result blocks
DispatchedResults ==
    [k \in 1..Len(dispatches) |-> ToolResult(dispatches[k].id, dispatches[k].ret)]

\* C40: _handle_tool_execution dispatches every tool-call block of the initial
\* response once, in block order, and then makes exactly one completion call,
\* which offers no tools and gets the caller's messages followed by the
\* assistant message and the tool results; the message list in the caller's
\* base_params stays as it was passed; and a tool that raises is not caught:
\* its exception leaves the helper and no completion call is made.
C40_HandleToolExecution ==
    Handling =>
        LET blocks == ToolUseBlocks(response.content)
        IN  /\ last.base_params.messages = last.given
            /\ Len(dispatches) <= Len(blocks)
            /\ \A k \in 1..Len(dispatches) :
                   /\ dispatches[k].id = blocks[k].id
                   /\ dispatches[k].name = blocks[k].name
                   /\ dispatches[k].input = blocks[k].input
                   /\ dispatches[k].raised => k = Len(dispatches)
            /\ Len(calls) <= 1
            /\ ToolRaised =>
                   /\ pc = "done"
                   /\ calls = <<>>
                   /\ result = Raised(dispatches[Len(dispatches)].ret)
            /\ (pc = "done" /\ ~ToolRaised) =>
                   /\ Len(dispatches) = Len(blocks)
                   /\ Len(calls) = 1
                   /\ DOMAIN calls[1] = {"messages"}
                   /\ calls[1].messages =
                         last.given
                         \o << [role |-> "assistant", content |-> response.content] >>
                         \o (IF blocks = <<>> THEN <<>>
                             ELSE << [role |-> "user", content |-> DispatchedResults] >>)
            /\ pc # "done" => calls = <<>>

C40_Witness ==
    /\ Handling
    /\ pc = "done"
    /\ result.kind = "return"
    /\ Len(last.given) = 3
    /\ last.base_params.messages = last.given
    /\ Len(dispatches) = 2
    /\ dispatches[1].id = "toolu_1" /\ dispatches[2].id = "toolu_2"
    /\ Len(calls) = 1
    /\ Len(calls[1].messages) = 5

====
